---------------------------- MODULE Spec2Model ----------------------------
(***************************************************************************)
(* A model of the JavaScript/JSX highlighter of ulight                     *)
(* (src/src/main/cpp/js.cpp).                                              *)
(*                                                                         *)
(* The source text is a sequence of code units, each a one-character       *)
(* string.  Offsets are 0-based as in the C++ code; a u8string_view is     *)
(* modelled by the sequence of its code units.  Every view the code        *)
(* passes around is a suffix of `source` (or a prefix of such a suffix),   *)
(* so a read one position past the end of a view reads the byte that is    *)
(* stored right after the source buffer: the variable past_end.            *)
(*                                                                         *)
(* The Highlighter's call stack is explicit: one frame per active call     *)
(* of a function that loops or calls back into the dispatch, and one       *)
(* action per loop iteration or continuation.                              *)
(***************************************************************************)
EXTENDS Integers, Sequences, FiniteSets, TLC

VARIABLES
    source,            \* Highlighter::source, never modified by a scan
    past_end,          \* the byte stored right after the source buffer
    debug,             \* TRUE when the build compiles ULIGHT_DEBUG_ASSERT in
    index,             \* Highlighter::index
    can_be_regex,      \* Highlighter::can_be_regex
    at_start_of_file,  \* Highlighter::at_start_of_file
    out,               \* the output buffer, one per value of options.coalescing
    stack,             \* the active calls, innermost last
    status             \* "running", "done", "assert_failed", "exception", "undefined"

vars == <<source, past_end, debug, index, can_be_regex, at_start_of_file, out, stack, status>>

---------------------------------------------------------------------------
(* Character classes (ulight/impl/chars.hpp), restricted to ASCII.         *)

NUL == "NUL"

\* The grave accent, which delimits template literals.
Backtick == "backtick"

\* A code unit that begins no well-formed UTF-8 sequence, such as 0xFF.
Malformed == "malformed"

\* The two code units of a well-formed code point that is no whitespace and
\* begins no name, such as 0xC3 0x97 of U+00D7.
Lead == "lead"

Cont == "cont"

Digits10 == {"0", "1", "2", "3", "4", "5", "6", "7", "8", "9"}

LowerLetters == {"a", "b", "c", "d", "e", "f", "g", "h", "i", "j", "k", "l", "m", "n", "o", "p", "q", "r", "s", "t", "u", "v", "w", "x", "y", "z"}

UpperLetters == {"A", "B", "C", "D", "E", "F", "O", "X"}

is_js_whitespace(c) == c \in {" ", "\t", "\n", "\r"}

is_ascii_digit(c) == c \in Digits10

is_ascii_digit_base(c, base) ==
    CASE base = 2 -> c \in {"0", "1"}
      [] base = 8 -> c \in {"0", "1", "2", "3", "4", "5", "6", "7"}
      [] base = 10 -> c \in Digits10
      [] OTHER -> c \in Digits10 \cup {"a", "b", "c", "d", "e", "f", "A", "B", "C", "D", "E", "F"}

is_js_identifier_start(c) == c \in LowerLetters \cup UpperLetters \cup {"$", "_"}

is_js_identifier_part(c) == is_js_identifier_start(c) \/ is_ascii_digit(c)

---------------------------------------------------------------------------
(* std::u8string_view operations.                                          *)

substr(str, pos) == SubSeq(str, pos + 1, Len(str))

prefix(str, n) == SubSeq(str, 1, n)

starts_with(str, p) == Len(p) <= Len(str) /\ SubSeq(str, 1, Len(p)) = p

\* str[i]: inside the view the code unit; at the end of a view that ends with
\* the source, the byte after the buffer.
at(str, i) == IF i < Len(str) THEN str[i + 1] ELSE past_end

---------------------------------------------------------------------------
(* Primitive matchers.                                                     *)

RECURSIVE find_if_not_whitespace(_, _)
find_if_not_whitespace(str, i) ==
    IF i < Len(str) /\ is_js_whitespace(str[i + 1]) THEN find_if_not_whitespace(str, i + 1) ELSE i

match_whitespace(str) == find_if_not_whitespace(str, 0)

\* The loops of match_line_comment and match_hashbang_comment: the offset of
\* the first newline at or after length, or the length of the view.
RECURSIVE until_eol(_, _)
until_eol(s, length) ==
    IF length < Len(s) /\ s[length + 1] # "\n" THEN until_eol(s, length + 1) ELSE length

match_line_comment(s) ==
    IF ~starts_with(s, <<"/", "/">>) THEN 0 ELSE until_eol(s, 2)

RECURSIVE block_comment_loop(_, _)
block_comment_loop(s, length) ==
    IF length < Len(s) - 1
    THEN IF s[length + 1] = "*" /\ s[length + 2] = "/"
         THEN [length |-> length + 2, is_terminated |-> TRUE]
         ELSE block_comment_loop(s, length + 1)
    ELSE [length |-> Len(s), is_terminated |-> FALSE]

match_block_comment(s) ==
    IF ~starts_with(s, <<"/", "*">>)
    THEN [length |-> 0, is_terminated |-> FALSE]
    ELSE block_comment_loop(s, 2)

match_hashbang_comment(s, is_at_start_of_file) ==
    IF ~is_at_start_of_file \/ ~starts_with(s, <<"#", "!">>) THEN 0 ELSE until_eol(s, 2)

RECURSIVE string_literal_loop(_, _, _, _)
string_literal_loop(str, quote, length, escaped) ==
    IF length >= Len(str)
    THEN [length |-> length, terminated |-> FALSE]
    ELSE LET c == str[length + 1] IN
         IF ~escaped /\ c = quote THEN [length |-> length + 1, terminated |-> TRUE]
         ELSE IF ~escaped /\ c = "\n" THEN [length |-> length, terminated |-> FALSE]
         ELSE string_literal_loop(str, quote, length + 1, ~escaped /\ c = "\\")

match_string_literal(str) ==
    IF ~starts_with(str, <<"'">>) /\ ~starts_with(str, <<"\"">>)
    THEN [length |-> 0, terminated |-> FALSE]
    ELSE string_literal_loop(str, str[1], 1, FALSE)

\* The stateful predicate of match_digits: previous is assigned for every
\* code unit the predicate is called on, the one that ends the run included.
RECURSIVE match_digits_loop(_, _, _, _, _)
match_digits_loop(str, base, i, previous, erroneous) ==
    IF i >= Len(str)
    THEN [length |-> i, erroneous |-> erroneous \/ previous = "_"]
    ELSE LET c == str[i + 1] IN
         IF c = "_" \/ is_ascii_digit_base(c, base)
         THEN match_digits_loop(str, base, i + 1, c, erroneous \/ (c = "_" /\ previous = "_"))
         ELSE [length |-> i, erroneous |-> erroneous \/ c = "_"]

match_digits(str, base) == match_digits_loop(str, base, 0, "_", FALSE)

no_numeric == [length |-> 0, erroneous |-> FALSE, prefix |-> 0, integer |-> 0, fractional |-> 0, exponent |-> 0, suffix |-> 0]

numeric_base(str) ==
    IF starts_with(str, <<"0", "b">>) \/ starts_with(str, <<"0", "B">>) THEN 2
    ELSE IF starts_with(str, <<"0", "o">>) \/ starts_with(str, <<"0", "O">>) THEN 8
    ELSE IF starts_with(str, <<"0", "x">>) \/ starts_with(str, <<"0", "X">>) THEN 16
    ELSE 10

\* The exponent and suffix parts, lines 331-360; r holds the parts matched
\* so far and length their sum.
numeric_tail(str, r, length) ==
    LET has_exp == length < Len(str) /\ str[length + 1] \in {"e", "E"}
        sign == IF has_exp /\ length + 1 < Len(str) /\ str[length + 2] \in {"+", "-"} THEN 1 ELSE 0
        exp_digits == match_digits(substr(str, length + 1 + sign), 10)
        exponent == IF has_exp THEN 1 + sign + exp_digits.length ELSE 0
        err1 == IF has_exp
                THEN r.erroneous \/ r.prefix # 0 \/ exp_digits.length = 0 \/ exp_digits.erroneous
                ELSE r.erroneous
        length1 == length + exponent
        has_suffix == length1 < Len(str) /\ str[length1 + 1] = "n"
        suffix == IF has_suffix THEN 1 ELSE 0
        err2 == IF has_suffix THEN err1 \/ r.fractional # 0 \/ exponent # 0 ELSE err1
    IN [r EXCEPT !.exponent = exponent, !.suffix = suffix, !.erroneous = err2, !.length = length1 + suffix]

\* The indices i of the reads str[i] that match_numeric_literal(str) makes:
\* the operand of is_ascii_digit in line 321 is evaluated when a "." follows
\* the integer part and neither a prefix nor integer digits were matched.
numeric_literal_reads(str) ==
    IF /\ Len(str) # 0
       /\ numeric_base(str) = 10
       /\ match_digits(str, 10).length = 0
       /\ starts_with(str, <<".">>)
    THEN {1}
    ELSE {}

match_numeric_literal(str) ==
    IF Len(str) = 0 THEN no_numeric
    ELSE
    LET base == numeric_base(str)
        prefix_length == IF base # 10 THEN 2 ELSE 0
        integer_digits == match_digits(substr(str, prefix_length), base)
        length0 == prefix_length + integer_digits.length
        has_dot == starts_with(substr(str, length0), <<".">>)
        fractional_digits == match_digits(substr(str, length0 + 1), 10)
        r0 == [no_numeric EXCEPT !.prefix = prefix_length, !.integer = integer_digits.length,
                                 !.erroneous = integer_digits.erroneous]
        r1 == IF has_dot
              THEN [r0 EXCEPT !.fractional = 1 + fractional_digits.length,
                              !.erroneous = r0.erroneous \/ prefix_length # 0
                                            \/ fractional_digits.length = 0 \/ fractional_digits.erroneous]
              ELSE r0
        length1 == length0 + r1.fractional
    IN IF has_dot /\ prefix_length = 0 /\ integer_digits.length = 0 /\ ~is_ascii_digit(at(str, length0 + 1))
       THEN no_numeric
       ELSE IF length1 = 0 THEN no_numeric
       ELSE numeric_tail(str, r1, length1)

match_line_terminator_sequence(s) ==
    IF starts_with(s, <<"\n">>) THEN 1
    ELSE IF starts_with(s, <<"\r", "\n">>) THEN 2
    ELSE 0

match_line_continuation(str) ==
    IF ~starts_with(str, <<"\\">>) THEN 0
    ELSE IF match_line_terminator_sequence(substr(str, 1)) # 0
         THEN match_line_terminator_sequence(substr(str, 1)) + 1
         ELSE 0

\* is_part of match_name: the characters a name of each Name_Type continues with.
is_name_part(c, type) ==
    \/ is_js_identifier_part(c)
    \/ type = "jsx_identifier" /\ c = "-"
    \/ type = "jsx_attribute_name" /\ c \in {"-", ":"}
    \/ type = "jsx_element_name" /\ c \in {"-", ":", "."}

RECURSIVE match_name_loop(_, _, _)
match_name_loop(str, type, length) ==
    IF length < Len(str) /\ is_name_part(str[length + 1], type)
    THEN match_name_loop(str, type, length + 1)
    ELSE length

match_name(str, type) ==
    IF Len(str) = 0 THEN 0
    ELSE IF ~is_js_identifier_start(str[1]) THEN 0
    ELSE match_name_loop(str, type, 1)

\* utf8::decode_and_length_or_throw (ulight/impl/unicode.hpp) throws on code
\* units that are not well-formed UTF-8: a unit that begins no sequence, a
\* continuation unit where a sequence should begin, a sequence cut short.
decode_throws(str) ==
    /\ str # <<>>
    /\ \/ str[1] \in {Malformed, Cont}
       \/ str[1] = Lead /\ ~starts_with(str, <<Lead, Cont>>)

\* match_name_throws with a decoder that never throws.
match_name_never_throws(str, type) == FALSE

\* match_name throws: the decoder fails on the first code point, or on the
\* code point at which the loop over the parts of the name has arrived.
match_name_throws(str, type) ==
    /\ Len(str) # 0
    /\ \/ decode_throws(str)
       \/ /\ is_js_identifier_start(str[1])
          /\ decode_throws(substr(str, match_name_loop(str, type, 1)))

match_identifier(str) == match_name(str, "identifier")

match_jsx_element_name(str) == match_name(str, "jsx_element_name")

match_jsx_attribute_name(str) == match_name(str, "jsx_attribute_name")

\* match_private_identifier throws: its call of match_identifier does.
match_private_identifier_throws(str) ==
    Len(str) # 0 /\ str[1] = "#" /\ match_name_throws(substr(str, 1), "identifier")

match_private_identifier(str) ==
    IF Len(str) = 0 \/ str[1] # "#" THEN 0
    ELSE IF match_identifier(substr(str, 1)) = 0 THEN 0
    ELSE 1 + match_identifier(substr(str, 1))

---------------------------------------------------------------------------
(* Whitespace/comment sequences and the JSX tag matcher.  The grammar is   *)
(* written once against a consumer; what it reports to the consumer is     *)
(* modelled as the sequence of events, which depends on the text alone.    *)

Ev(kind, n, terminated) == [kind |-> kind, length |-> n, is_terminated |-> terminated]

RECURSIVE events_length(_)
events_length(ev) == IF ev = <<>> THEN 0 ELSE ev[1].length + events_length(Tail(ev))

\* One iteration of the loop of match_whitespace_comment_sequence(out, str):
\* the call it makes on out, of length 0 when the loop ends.
wsc_event(str) ==
    IF match_whitespace(str) # 0 THEN Ev("whitespace", match_whitespace(str), TRUE)
    ELSE IF match_block_comment(str).length # 0
    THEN Ev("block_comment", match_block_comment(str).length, match_block_comment(str).is_terminated)
    ELSE Ev("line_comment", match_line_comment(str), TRUE)

\* match_whitespace_comment_sequence(out, str): the calls made on out.
RECURSIVE wsc_events(_)
wsc_events(str) ==
    IF Len(str) = 0 \/ wsc_event(str).length = 0 THEN <<>>
    ELSE <<wsc_event(str)>> \o wsc_events(substr(str, wsc_event(str).length))

\* The counting overload.
match_whitespace_comment_sequence(str) == events_length(wsc_events(str))

RECURSIVE jsx_braced_loop(_, _, _)

\* The switch on str[l], lines 545-566.
jsx_braced_switch(str, l, level) ==
    IF at(str, l) = "}" /\ level - 1 = 0
    THEN [length |-> l + 1, is_terminated |-> TRUE]
    ELSE jsx_braced_loop(str,
                         IF at(str, l) \in {"'", "\""} /\ match_string_literal(substr(str, l)).length # 0
                         THEN l + match_string_literal(substr(str, l)).length
                         ELSE l + 1,
                         CASE at(str, l) = "{" -> level + 1
                           [] at(str, l) = "}" -> level - 1
                           [] OTHER -> level)

jsx_braced_loop(str, length, level) ==
    IF length >= Len(str)
    THEN [length |-> length, is_terminated |-> FALSE]
    ELSE jsx_braced_switch(str, length + match_whitespace_comment_sequence(substr(str, length)), level)

match_jsx_braced(str) ==
    IF ~starts_with(str, <<"{">>)
    THEN [length |-> 0, is_terminated |-> FALSE]
    ELSE jsx_braced_loop(str, 1, 1)

RECURSIVE jsx_braced_reads_loop(_, _, _)

\* The index l of the read str[l] in the switch, line 545, and the indices
\* read in the iterations that follow it.
jsx_braced_reads_switch(str, l, level) ==
    {l} \cup
    IF at(str, l) = "}" /\ level - 1 = 0
    THEN {}
    ELSE jsx_braced_reads_loop(str,
                               IF at(str, l) \in {"'", "\""} /\ match_string_literal(substr(str, l)).length # 0
                               THEN l + match_string_literal(substr(str, l)).length
                               ELSE l + 1,
                               CASE at(str, l) = "{" -> level + 1
                                 [] at(str, l) = "}" -> level - 1
                                 [] OTHER -> level)

jsx_braced_reads_loop(str, length, level) ==
    IF length >= Len(str)
    THEN {}
    ELSE jsx_braced_reads_switch(str, length + match_whitespace_comment_sequence(substr(str, length)), level)

\* The indices i of the reads str[i] that match_jsx_braced(str) makes.
jsx_braced_reads(str) ==
    IF ~starts_with(str, <<"{">>) THEN {} ELSE jsx_braced_reads_loop(str, 1, 1)

\* What a run of match_jsx_tag_impl(consumer, str, subset) amounts to: its
\* return value, the events it reported before returning, the tag type passed
\* to done ("thrown" when the decoder threw out of the run), and whether it
\* removed more from a view than the view holds.
tag_run(matched, ev, type, undefined) == [matched |-> matched, events |-> ev, type |-> type, undefined |-> undefined]

\* One iteration of the attribute loop either returns from match_jsx_tag_impl
\* or continues with what is left of the view.
Return(run) == [continue |-> FALSE, run |-> run, str |-> <<>>]

Continue(str, ev) == [continue |-> TRUE, run |-> tag_run(FALSE, ev, "none", FALSE), str |-> str]

\* match_whitespace_comment_sequence(out, str) and str.remove_prefix of what
\* it matched: the view that is left and the events reported so far.
skip_blank(str, ev) == [str |-> substr(str, events_length(wsc_events(str))), events |-> ev \o wsc_events(str)]

\* out.braced(b) followed by continue, for a terminated b.
jsx_tag_braced(str, ev, b) ==
    IF b.length > Len(str)
    THEN Return(tag_run(FALSE, ev \o <<Ev("braced", b.length, TRUE)>>, "none", TRUE))
    ELSE Continue(substr(str, b.length), ev \o <<Ev("braced", b.length, TRUE)>>)

\* The attribute value, lines 777-796; p is the view and the events after
\* the blank that follows "=".
jsx_tag_value(p) ==
    IF match_string_literal(p.str).length # 0
    THEN Continue(substr(p.str, match_string_literal(p.str).length),
                  p.events \o <<Ev("string_literal", match_string_literal(p.str).length,
                                   match_string_literal(p.str).terminated)>>)
    ELSE IF match_jsx_braced(p.str).length # 0
    THEN IF ~match_jsx_braced(p.str).is_terminated
         THEN Return(tag_run(FALSE, p.events, "none", FALSE))
         ELSE jsx_tag_braced(p.str, p.events, match_jsx_braced(p.str))
    ELSE Return(tag_run(FALSE, p.events, "none", FALSE))

\* Lines 771-796; p is the view and the events after the blank that follows
\* the attribute name.
jsx_tag_equals(p) ==
    IF ~starts_with(p.str, <<"=">>)
    THEN Continue(p.str, p.events)
    ELSE jsx_tag_value(skip_blank(substr(p.str, 1), p.events \o <<Ev("attribute_equals", 1, TRUE)>>))

\* After an attribute name, lines 770-796.
jsx_tag_attribute_value(str, ev) == jsx_tag_equals(skip_blank(str, ev))

\* Lines 745-796; p is the view and the events after the leading blank.
jsx_tag_attribute_at(p, closing) ==
    IF starts_with(p.str, <<">">>)
    THEN Return(tag_run(TRUE, p.events \o <<Ev("closing_symbol", 1, TRUE)>>,
                        IF closing THEN "closing" ELSE "opening", FALSE))
    ELSE IF starts_with(p.str, <<"/", ">">>)
    THEN IF closing
         THEN Return(tag_run(FALSE, p.events, "none", FALSE))
         ELSE Return(tag_run(TRUE, p.events \o <<Ev("closing_symbol", 1, TRUE), Ev("closing_symbol", 1, TRUE)>>,
                             "self_closing", FALSE))
    ELSE IF match_jsx_braced(p.str).length # 0
    THEN IF ~match_jsx_braced(p.str).is_terminated
         THEN Return(tag_run(FALSE, p.events, "none", FALSE))
         ELSE jsx_tag_braced(p.str, p.events, match_jsx_braced(p.str))
    ELSE IF match_name_throws(p.str, "jsx_attribute_name")
    THEN Return(tag_run(FALSE, p.events, "thrown", FALSE))
    ELSE IF match_jsx_attribute_name(p.str) # 0
    THEN jsx_tag_attribute_value(substr(p.str, match_jsx_attribute_name(p.str)),
                                 p.events \o <<Ev("attribute_name", match_jsx_attribute_name(p.str), TRUE)>>)
    ELSE Return(tag_run(FALSE, p.events, "none", FALSE))

\* The body of the attribute loop, lines 744-796.
jsx_tag_attribute(str, ev, closing) == jsx_tag_attribute_at(skip_blank(str, ev), closing)

RECURSIVE jsx_tag_attributes(_, _, _)

\* The end of an iteration of the attribute loop: return, or continue.
jsx_tag_continue(step, closing) ==
    IF step.continue THEN jsx_tag_attributes(step.str, step.run.events, closing) ELSE step.run

\* The attribute loop, lines 743-799.
jsx_tag_attributes(str, ev, closing) ==
    IF Len(str) = 0 THEN tag_run(FALSE, ev, "none", FALSE)
    ELSE jsx_tag_continue(jsx_tag_attribute(str, ev, closing), closing)

\* Lines 739-741, then the attribute loop.
jsx_tag_name(str, ev, closing) ==
    IF match_name_throws(str, "jsx_element_name")
    THEN tag_run(FALSE, ev, "thrown", FALSE)
    ELSE jsx_tag_attributes(substr(str, match_jsx_element_name(str)),
                            IF match_jsx_element_name(str) # 0
                            THEN ev \o <<Ev("element_name", match_jsx_element_name(str), TRUE)>>
                            ELSE ev,
                            closing)

\* Lines 733-741; p is the view and the events after the blank that follows "/".
jsx_tag_closing(p) ==
    IF starts_with(p.str, <<">">>)
    THEN tag_run(TRUE, p.events \o <<Ev("closing_symbol", 1, TRUE)>>, "fragment_closing", FALSE)
    ELSE jsx_tag_name(p.str, p.events, TRUE)

\* The opening of a tag with closing tags matched for every subset.
jsx_tag_opening_any_subset(p, subset) ==
    IF starts_with(p.str, <<">">>)
    THEN tag_run(TRUE, p.events \o <<Ev("closing_symbol", 1, TRUE)>>, "fragment_opening", FALSE)
    ELSE IF starts_with(p.str, <<"/">>)
    THEN jsx_tag_closing(skip_blank(substr(p.str, 1), p.events \o <<Ev("closing_symbol", 1, TRUE)>>))
    ELSE jsx_tag_name(p.str, p.events, FALSE)

\* Lines 720-741; p is the view and the events after the blank that follows "<".
jsx_tag_opening(p, subset) ==
    IF starts_with(p.str, <<">">>)
    THEN tag_run(TRUE, p.events \o <<Ev("closing_symbol", 1, TRUE)>>, "fragment_opening", FALSE)
    ELSE IF starts_with(p.str, <<"/">>)
    THEN IF subset = "non_closing"
         THEN tag_run(FALSE, p.events, "none", FALSE)
         ELSE jsx_tag_closing(skip_blank(substr(p.str, 1), p.events \o <<Ev("closing_symbol", 1, TRUE)>>))
    ELSE jsx_tag_name(p.str, p.events, FALSE)

\* match_jsx_tag_impl(consumer, str, subset).
match_jsx_tag_events(str, subset) ==
    IF ~starts_with(str, <<"<">>) THEN tag_run(FALSE, <<>>, "none", FALSE)
    ELSE jsx_tag_opening(skip_blank(substr(str, 1), <<Ev("opening_symbol", 1, TRUE)>>), subset)

\* JSX_Tag_Result that keeps the counted length of a run that failed.
JSX_Tag_Result_of_any_run(run) ==
    [length |-> events_length(run.events),
     type |-> run.type,
     undefined |-> run.undefined,
     thrown |-> run.type = "thrown"]

\* What the counting consumer makes of a run: JSX_Tag_Result { length, type },
\* empty on failure.
JSX_Tag_Result(run) ==
    [length |-> IF run.matched THEN events_length(run.events) ELSE 0,
     type |-> IF run.matched THEN run.type ELSE "none",
     undefined |-> run.undefined,
     thrown |-> run.type = "thrown"]

\* The counting overload.
match_jsx_tag_impl(str, subset) == JSX_Tag_Result(match_jsx_tag_events(str, subset))

match_jsx_tag(str) == match_jsx_tag_impl(str, "all")

---------------------------------------------------------------------------
(* The token-type registry.  The table rows come from                      *)
(* ULIGHT_JS_TOKEN_ENUM_DATA (ulight/impl/js.hpp): every operator and      *)
(* punctuation mark, and the keywords this model's inputs use.  A          *)
(* Token_Type is named by its enumerator; "none" is the empty optional.    *)

\* The printable ASCII characters in code-unit order.
AsciiOrder == <<" ", "!", "\"", "#", "$", "%", "&", "'", "(", ")", "*", "+", ",", "-", ".", "/",
                "0", "1", "2", "3", "4", "5", "6", "7", "8", "9", ":", ";", "<", "=", ">", "?", "@",
                "A", "B", "C", "D", "E", "F", "G", "H", "I", "J", "K", "L", "M", "N", "O", "P", "Q", "R", "S", "T", "U", "V", "W", "X", "Y", "Z",
                "[", "\\", "]", "^", "_", Backtick,
                "a", "b", "c", "d", "e", "f", "g", "h", "i", "j", "k", "l", "m", "n", "o", "p", "q", "r", "s", "t", "u", "v", "w", "x", "y", "z",
                "{", "|", "}", "~">>

code_unit(c) == CHOOSE i \in 1..Len(AsciiOrder) : AsciiOrder[i] = c

\* operator< of std::u8string_view.
RECURSIVE view_less(_, _)
view_less(a, b) ==
    IF b = <<>> THEN FALSE
    ELSE IF a = <<>> THEN TRUE
    ELSE IF a[1] = b[1] THEN view_less(Tail(a), Tail(b))
    ELSE code_unit(a[1]) < code_unit(b[1])

Row(id, code, highlight) == [id |-> id, code |-> code, highlight |-> highlight]

token_types == <<
    Row("logical_not", <<"!">>, "sym_op"),
    Row("not_equals", <<"!", "=">>, "sym_op"),
    Row("strict_not_equals", <<"!", "=", "=">>, "sym_op"),
    Row("modulo", <<"%">>, "sym_op"),
    Row("modulo_equal", <<"%", "=">>, "sym_op"),
    Row("bitwise_and", <<"&">>, "sym_op"),
    Row("logical_and", <<"&", "&">>, "sym_op"),
    Row("logical_and_equal", <<"&", "&", "=">>, "sym_op"),
    Row("bitwise_and_equal", <<"&", "=">>, "sym_op"),
    Row("left_paren", <<"(">>, "sym_parens"),
    Row("right_paren", <<")">>, "sym_parens"),
    Row("multiply", <<"*">>, "sym_op"),
    Row("exponentiation", <<"*", "*">>, "sym_op"),
    Row("exponentiation_equal", <<"*", "*", "=">>, "sym_op"),
    Row("multiply_equal", <<"*", "=">>, "sym_op"),
    Row("plus", <<"+">>, "sym_op"),
    Row("increment", <<"+", "+">>, "sym_op"),
    Row("plus_equal", <<"+", "=">>, "sym_op"),
    Row("comma", <<",">>, "sym_punc"),
    Row("minus", <<"-">>, "sym_op"),
    Row("decrement", <<"-", "-">>, "sym_op"),
    Row("minus_equal", <<"-", "=">>, "sym_op"),
    Row("dot", <<".">>, "sym_punc"),
    Row("ellipsis", <<".", ".", ".">>, "sym_op"),
    Row("divide", <<"/">>, "sym_op"),
    Row("divide_equal", <<"/", "=">>, "sym_op"),
    Row("colon", <<":">>, "sym_punc"),
    Row("semicolon", <<";">>, "sym_punc"),
    Row("less_than", <<"<">>, "sym_op"),
    Row("left_shift", <<"<", "<">>, "sym_op"),
    Row("left_shift_equal", <<"<", "<", "=">>, "sym_op"),
    Row("less_equal", <<"<", "=">>, "sym_op"),
    Row("assignment", <<"=">>, "sym_op"),
    Row("equals", <<"=", "=">>, "sym_op"),
    Row("strict_equals", <<"=", "=", "=">>, "sym_op"),
    Row("arrow", <<"=", ">">>, "sym_op"),
    Row("greater_than", <<">">>, "sym_op"),
    Row("greater_equal", <<">", "=">>, "sym_op"),
    Row("right_shift", <<">", ">">>, "sym_op"),
    Row("right_shift_equal", <<">", ">", "=">>, "sym_op"),
    Row("unsigned_right_shift", <<">", ">", ">">>, "sym_op"),
    Row("unsigned_right_shift_equal", <<">", ">", ">", "=">>, "sym_op"),
    Row("conditional", <<"?">>, "sym_op"),
    Row("optional_chaining", <<"?", ".">>, "sym_op"),
    Row("nullish_coalescing", <<"?", "?">>, "sym_op"),
    Row("nullish_coalescing_equal", <<"?", "?", "=">>, "sym_op"),
    Row("left_bracket", <<"[">>, "sym_square"),
    Row("right_bracket", <<"]">>, "sym_square"),
    Row("bitwise_xor", <<"^">>, "sym_op"),
    Row("bitwise_xor_equal", <<"^", "=">>, "sym_op"),
    Row("kw_await", <<"a", "w", "a", "i", "t">>, "keyword"),
    Row("kw_case", <<"c", "a", "s", "e">>, "keyword"),
    Row("kw_delete", <<"d", "e", "l", "e", "t", "e">>, "keyword"),
    Row("kw_if", <<"i", "f">>, "keyword"),
    Row("kw_in", <<"i", "n">>, "keyword"),
    Row("kw_instanceof", <<"i", "n", "s", "t", "a", "n", "c", "e", "o", "f">>, "keyword"),
    Row("kw_new", <<"n", "e", "w">>, "keyword"),
    Row("kw_return", <<"r", "e", "t", "u", "r", "n">>, "keyword"),
    Row("kw_throw", <<"t", "h", "r", "o", "w">>, "keyword"),
    Row("kw_typeof", <<"t", "y", "p", "e", "o", "f">>, "keyword"),
    Row("kw_var", <<"v", "a", "r">>, "keyword"),
    Row("kw_void", <<"v", "o", "i", "d">>, "keyword"),
    Row("kw_yield", <<"y", "i", "e", "l", "d">>, "keyword"),
    Row("left_brace", <<"{">>, "sym_brace"),
    Row("bitwise_or", <<"|">>, "sym_op"),
    Row("bitwise_or_equal", <<"|", "=">>, "sym_op"),
    Row("logical_or", <<"|", "|">>, "sym_op"),
    Row("logical_or_equal", <<"|", "|", "=">>, "sym_op"),
    Row("right_brace", <<"}">>, "sym_brace"),
    Row("bitwise_not", <<"~">>, "sym_op")>>

token_type_codes == [i \in 1..Len(token_types) |-> token_types[i].code]

token_type_index(type) == CHOOSE i \in 1..Len(token_types) : token_types[i].id = type

js_token_type_code(type) == token_type_codes[token_type_index(type)]

\* token_type_lengths holds sizeof(code) - 1 for every row.
js_token_type_length(type) == Len(token_types[token_type_index(type)].code)

js_token_type_highlight(type) == token_types[token_type_index(type)].highlight

\* std::ranges::lower_bound: the first row whose code is not less than code,
\* or one past the last row.
RECURSIVE lower_bound(_, _)
lower_bound(code, i) ==
    IF i <= Len(token_type_codes) /\ view_less(token_type_codes[i], code) THEN lower_bound(code, i + 1) ELSE i

\* The lookup that accepts a spelling the found row merely begins with.
js_token_type_by_prefix(code) ==
    IF lower_bound(code, 1) > Len(token_type_codes) \/ ~starts_with(token_type_codes[lower_bound(code, 1)], code)
    THEN "none"
    ELSE token_types[lower_bound(code, 1)].id

js_token_type_by_code(code) ==
    LET result == lower_bound(code, 1)
    IN IF result > Len(token_type_codes) \/ token_type_codes[result] # code
       THEN "none"
       ELSE token_types[result].id

---------------------------------------------------------------------------
(* The operator/punctuation matcher.                                       *)

\* The matcher that looks at the first byte only.
match_operator_or_punctuation_first_byte(str) ==
    IF Len(str) = 0 \/ ~\E i \in 1..Len(token_types) : token_types[i].code = <<str[1]>> THEN "none"
    ELSE token_types[CHOOSE i \in 1..Len(token_types) : token_types[i].code = <<str[1]>>].id

match_operator_or_punctuation(str) ==
    IF Len(str) = 0 THEN "none"
    ELSE CASE str[1] = "!" -> IF starts_with(str, <<"!", "=", "=">>) THEN "strict_not_equals" ELSE IF starts_with(str, <<"!", "=">>) THEN "not_equals" ELSE "logical_not"
           [] str[1] = "%" -> IF starts_with(str, <<"%", "=">>) THEN "modulo_equal" ELSE "modulo"
           [] str[1] = "&" -> IF starts_with(str, <<"&", "&", "=">>) THEN "logical_and_equal" ELSE IF starts_with(str, <<"&", "&">>) THEN "logical_and" ELSE IF starts_with(str, <<"&", "=">>) THEN "bitwise_and_equal" ELSE "bitwise_and"
           [] str[1] = "(" -> "left_paren"
           [] str[1] = ")" -> "right_paren"
           [] str[1] = "*" -> IF starts_with(str, <<"*", "*", "=">>) THEN "exponentiation_equal" ELSE IF starts_with(str, <<"*", "*">>) THEN "exponentiation" ELSE IF starts_with(str, <<"*", "=">>) THEN "multiply_equal" ELSE "multiply"
           [] str[1] = "+" -> IF starts_with(str, <<"+", "+">>) THEN "increment" ELSE IF starts_with(str, <<"+", "=">>) THEN "plus_equal" ELSE "plus"
           [] str[1] = "," -> "comma"
           [] str[1] = "-" -> IF starts_with(str, <<"-", "-">>) THEN "decrement" ELSE IF starts_with(str, <<"-", "=">>) THEN "minus_equal" ELSE "minus"
           [] str[1] = "." -> IF starts_with(str, <<".", ".", ".">>) THEN "ellipsis" ELSE "dot"
           [] str[1] = "/" -> IF starts_with(str, <<"/", "=">>) THEN "divide_equal" ELSE "divide"
           [] str[1] = ":" -> "colon"
           [] str[1] = ";" -> "semicolon"
           [] str[1] = "<" -> IF starts_with(str, <<"<", "<", "=">>) THEN "left_shift_equal" ELSE IF starts_with(str, <<"<", "<">>) THEN "left_shift" ELSE IF starts_with(str, <<"<", "=">>) THEN "less_equal" ELSE "less_than"
           [] str[1] = "=" -> IF starts_with(str, <<"=", "=", "=">>) THEN "strict_equals" ELSE IF starts_with(str, <<"=", "=">>) THEN "equals" ELSE IF starts_with(str, <<"=", ">">>) THEN "arrow" ELSE "assignment"
           [] str[1] = ">" -> IF starts_with(str, <<">", ">", ">", "=">>) THEN "unsigned_right_shift_equal" ELSE IF starts_with(str, <<">", ">", ">">>) THEN "unsigned_right_shift" ELSE IF starts_with(str, <<">", ">", "=">>) THEN "right_shift_equal" ELSE IF starts_with(str, <<">", ">">>) THEN "right_shift" ELSE IF starts_with(str, <<">", "=">>) THEN "greater_equal" ELSE "greater_than"
           [] str[1] = "?" -> IF starts_with(str, <<"?", "?", "=">>) THEN "nullish_coalescing_equal" ELSE IF starts_with(str, <<"?", "?">>) THEN "nullish_coalescing" ELSE IF starts_with(str, <<"?", ".">>) THEN "optional_chaining" ELSE "conditional"
           [] str[1] = "[" -> "left_bracket"
           [] str[1] = "]" -> "right_bracket"
           [] str[1] = "^" -> IF starts_with(str, <<"^", "=">>) THEN "bitwise_xor_equal" ELSE "bitwise_xor"
           [] str[1] = "{" -> "left_brace"
           [] str[1] = "|" -> IF starts_with(str, <<"|", "|", "=">>) THEN "logical_or_equal" ELSE IF starts_with(str, <<"|", "|">>) THEN "logical_or" ELSE IF starts_with(str, <<"|", "=">>) THEN "bitwise_or_equal" ELSE "bitwise_or"
           [] str[1] = "}" -> "right_brace"
           [] str[1] = "~" -> "bitwise_not"
           [] OTHER -> "none"

---------------------------------------------------------------------------
(* The Highlighter.  Its member functions are operators from one machine   *)
(* state to the next; a machine state m holds the mutable members, the     *)
(* call stack and how the scan stands.  A failed assertion, a thrown       *)
(* exception and undefined behaviour end the scan: no later operation      *)
(* has an effect.                                                          *)

Cur == [index |-> index, can_be_regex |-> can_be_regex, at_start_of_file |-> at_start_of_file,
        out |-> out, stack |-> stack, status |-> status]

running(m) == m.status = "running"

\* ULIGHT_ASSERT / ULIGHT_DEBUG_ASSERT failing, std::out_of_range thrown by
\* substr, or behaviour the language leaves undefined.
stop(m, how) == IF running(m) THEN [m EXCEPT !.status = how] ELSE m

Frame(pc) == [pc |-> pc, n |-> 0, rem |-> 0, events |-> <<>>, undefined |-> FALSE,
              length |-> 0, is_terminated |-> FALSE, type |-> "none", start |-> -1]

top(m) == m.stack[Len(m.stack)]

push(m, f) == IF running(m) THEN [m EXCEPT !.stack = Append(@, f)] ELSE m

pop(m) == IF running(m) THEN [m EXCEPT !.stack = SubSeq(@, 1, Len(@) - 1)] ELSE m

set_top(m, f) == IF running(m) THEN [m EXCEPT !.stack[Len(m.stack)] = f] ELSE m

\* emit's buffer operations without the test that the new record begins
\* where the last one ends.
emit_to_any_gap(buffer, coalescing, begin, length, type) ==
    IF coalescing /\ buffer # <<>> /\ buffer[Len(buffer)].type = type
    THEN [buffer EXCEPT ![Len(buffer)].length = @ + length]
    ELSE Append(buffer, [begin |-> begin, length |-> length, type |-> type])

\* The buffer operations of emit, for one value of options.coalescing.
emit_to(buffer, coalescing, begin, length, type) ==
    LET coalesce == /\ coalescing
                    /\ buffer # <<>>
                    /\ buffer[Len(buffer)].type = type
                    /\ buffer[Len(buffer)].begin + buffer[Len(buffer)].length = begin
    IN IF coalesce
       THEN [buffer EXCEPT ![Len(buffer)].length = @ + length]
       ELSE Append(buffer, [begin |-> begin, length |-> length, type |-> type])

emit(m, begin, length, type) ==
    IF ~running(m) THEN m
    ELSE IF debug /\ ~(length # 0 /\ begin < Len(source) /\ begin + length <= Len(source))
    THEN stop(m, "assert_failed")
    ELSE [m EXCEPT !.out = [c \in BOOLEAN |-> emit_to(m.out[c], c, begin, length, type)]]

advance(m, amount) ==
    IF ~running(m) THEN m
    ELSE IF debug /\ ~(m.index + amount <= Len(source))
    THEN stop([m EXCEPT !.index = @ + amount], "assert_failed")
    ELSE [m EXCEPT !.index = @ + amount]

emit_and_advance(m, length, type) == advance(emit(m, m.index, length, type), length)

\* source.substr(index); the callers below stop with std::out_of_range
\* before they use it when index > source.length().
remainder(m) == substr(source, m.index)

set_can_be_regex(m, b) == IF running(m) THEN [m EXCEPT !.can_be_regex = b] ELSE m

\* consume_error that skips the byte without a record.
consume_error_without_record(m) == set_can_be_regex(advance(m, 1), TRUE)

\* consume_error without the advance.
consume_error_no_advance(m) == set_can_be_regex(emit(m, m.index, 1, "error"), TRUE)

consume_error(m) == set_can_be_regex(emit_and_advance(m, 1, "error"), TRUE)

highlight_line_comment(m, length) ==
    LET m1 == emit_and_advance(m, 2, "comment_delimiter")
        m2 == IF length > 2 THEN emit_and_advance(m1, length - 2, "comment") ELSE m1
    IN set_can_be_regex(m2, TRUE)

\* highlight_block_comment with the closing delimiter placed one byte early.
highlight_block_comment_early(m, block_comment) ==
    set_can_be_regex(
        advance(
            IF block_comment.is_terminated
            THEN emit(emit(emit(m, m.index, 2, "comment_delimiter"),
                           m.index + 2, block_comment.length - 4, "comment"),
                      m.index + block_comment.length - 3, 2, "comment_delimiter")
            ELSE emit(emit(m, m.index, 2, "comment_delimiter"),
                      m.index + 2, block_comment.length - 2, "comment"),
            block_comment.length),
        TRUE)

highlight_block_comment(m, block_comment) ==
    LET m1 == emit(m, m.index, 2, "comment_delimiter")
        m2 == emit(m1, m.index + 2,
                   block_comment.length - 2 - (IF block_comment.is_terminated THEN 2 ELSE 0), "comment")
        m3 == IF block_comment.is_terminated
              THEN emit(m2, m.index + block_comment.length - 2, 2, "comment_delimiter")
              ELSE m2
    IN set_can_be_regex(advance(m3, block_comment.length), TRUE)

highlight_string_literal(m, string) ==
    IF ~(string.length >= 2) THEN stop(m, "assert_failed")
    ELSE
    LET m1 == emit_and_advance(m, 1, "string_delim")
        m2 == IF string.length > 2 THEN emit_and_advance(m1, string.length - 2, "string") ELSE m1
    IN set_can_be_regex(emit_and_advance(m2, 1, "string_delim"), FALSE)

\* consume_js_before_closing_brace is entered: its assertion, then its frame.
call_consume_js_before_closing_brace(m) ==
    IF ~running(m) THEN m
    ELSE IF m.at_start_of_file THEN stop(m, "assert_failed")
    ELSE push(m, Frame("js"))

\* The last statement of highlight_jsx_braced.
highlight_jsx_braced_end(m, is_terminated) ==
    IF is_terminated THEN emit_and_advance(m, 1, "sym_brace") ELSE m

\* highlight_jsx_braced up to its call of consume_js_before_closing_brace,
\* which leaves the rest to the frame "braced_js_done".
highlight_jsx_braced(m, braced) ==
    IF ~running(m) THEN m
    ELSE IF m.index > Len(source) THEN stop(m, "undefined")
    ELSE IF braced.length = 0 \/ at(source, m.index) # "{" THEN stop(m, "assert_failed")
    ELSE
    LET m1 == emit_and_advance(m, 1, "sym_brace")
        js_length == braced.length - (IF braced.is_terminated THEN 2 ELSE 1)
    IN IF js_length # 0
       THEN call_consume_js_before_closing_brace(
                push(m1, [Frame("braced_js_done") EXCEPT !.is_terminated = braced.is_terminated]))
       ELSE highlight_jsx_braced_end(m1, braced.is_terminated)

\* consume_jsx_tag is entered: the tag at the cursor is parsed again, this
\* time with the highlighting consumer.
call_consume_jsx_tag(m) ==
    IF ~running(m) THEN m
    ELSE IF m.index > Len(source) THEN stop(m, "exception")
    ELSE push(m, [Frame("tag") EXCEPT !.events = match_jsx_tag_events(remainder(m), "all").events,
                                      !.undefined = match_jsx_tag_events(remainder(m), "all").undefined])

\* The loop of expect_regex over the body, lines 1418-1438.
RECURSIVE regex_body(_, _, _)
regex_body(rem, size, escaped) ==
    IF size >= Len(rem) THEN [size |-> size, terminated |-> FALSE]
    ELSE LET c == rem[size + 1] IN
         IF ~escaped /\ c = "/" THEN [size |-> size + 1, terminated |-> TRUE]
         ELSE IF ~escaped /\ c = "\n" THEN [size |-> size, terminated |-> FALSE]
         ELSE regex_body(rem, size + 1, ~escaped /\ c = "\\")

\* is_js_identifier_part(char32_t(c)), line 1445: the code unit is taken for
\* the code point of the same value, which for 0xC3 is the letter U+00C3 and
\* for a continuation unit a control character.
is_js_identifier_part_of_unit(c) == is_js_identifier_part(c) \/ c = Lead

\* The loop over the flags, lines 1442-1451.
RECURSIVE regex_flags(_, _)
regex_flags(rem, size) ==
    IF size < Len(rem) /\ is_js_identifier_part_of_unit(rem[size + 1]) THEN regex_flags(rem, size + 1) ELSE size

\* The length expect_regex emits, 0 when it returns false.
regex_length(rem, may_be_regex) ==
    IF ~may_be_regex \/ ~starts_with(rem, <<"/">>) THEN 0
    ELSE IF Len(rem) > 1 /\ rem[2] # "/" /\ rem[2] # "*" /\ regex_body(rem, 1, FALSE).terminated
    THEN regex_flags(rem, regex_body(rem, 1, FALSE).size)
    ELSE 0

\* expr_keywords without return.
expr_keywords_no_return == {"kw_throw", "kw_case", "kw_delete", "kw_void", "kw_typeof",
                            "kw_yield", "kw_await", "kw_instanceof", "kw_in", "kw_new"}

expr_keywords == {"kw_return", "kw_throw", "kw_case", "kw_delete", "kw_void", "kw_typeof",
                  "kw_yield", "kw_await", "kw_instanceof", "kw_in", "kw_new"}

non_regex_ops == {"increment", "decrement", "right_paren", "right_bracket", "right_brace", "plus", "minus"}

expect_numeric_literal(m, number) ==
    set_can_be_regex(emit_and_advance(m, number.length, IF number.erroneous THEN "error" ELSE "number"), FALSE)

expect_private_identifier(m, private_id_length) ==
    set_can_be_regex(emit_and_advance(m, private_id_length, "id"), FALSE)

\* The keyword a name is, or "none".
keyword_at(m, id_length) == js_token_type_by_code(prefix(remainder(m), id_length))

\* The assignments that end expect_symbols, lines 1506-1513.
expect_symbols_end(m, id_length, keyword) ==
    IF running(m)
    THEN [m EXCEPT !.index = @ + id_length, !.can_be_regex = keyword \in expr_keywords]
    ELSE m

expect_symbols(m, id_length) ==
    expect_symbols_end(emit(m, m.index, id_length,
                            IF keyword_at(m, id_length) # "none"
                            THEN js_token_type_highlight(keyword_at(m, id_length))
                            ELSE "id"),
                       id_length, keyword_at(m, id_length))

expect_operator_or_punctuation(m, op) ==
    set_can_be_regex(emit_and_advance(m, js_token_type_length(op), js_token_type_highlight(op)),
                     op \notin non_regex_ops)

\* expect_jsx_in_js up to its call of consume_jsx_tag; the rest is left to
\* the frames "jsx_tag_done" and "jsx_children_done".
expect_jsx_in_js(m, opening) ==
    call_consume_jsx_tag(push(m, [Frame("jsx_tag_done") EXCEPT !.type = opening.type, !.length = opening.length]))

\* expect_template and consume_template up to its loop.
expect_template(m) == push(emit_and_advance(m, 1, "string_delim"), Frame("template"))

\* The chain of expect_* calls that operator() and
\* consume_js_before_closing_brace share, and consume_error when none matches.
dispatch(m) ==
    IF match_line_comment(remainder(m)) # 0
    THEN highlight_line_comment(m, match_line_comment(remainder(m)))
    ELSE IF match_block_comment(remainder(m)).length # 0
    THEN highlight_block_comment(m, match_block_comment(remainder(m)))
    ELSE IF match_jsx_tag_impl(remainder(m), "non_closing").undefined
    THEN stop(m, "undefined")
    ELSE IF match_jsx_tag_impl(remainder(m), "non_closing").thrown
    THEN stop(m, "exception")
    ELSE IF match_jsx_tag_impl(remainder(m), "non_closing").length # 0
    THEN expect_jsx_in_js(m, match_jsx_tag_impl(remainder(m), "non_closing"))
    ELSE IF match_string_literal(remainder(m)).length # 0
    THEN highlight_string_literal(m, match_string_literal(remainder(m)))
    ELSE IF starts_with(remainder(m), <<Backtick>>)
    THEN expect_template(m)
    ELSE IF regex_length(remainder(m), m.can_be_regex) # 0
    THEN set_can_be_regex(emit_and_advance(m, regex_length(remainder(m), m.can_be_regex), "string"), FALSE)
    ELSE IF match_numeric_literal(remainder(m)).length # 0
    THEN expect_numeric_literal(m, match_numeric_literal(remainder(m)))
    ELSE IF match_private_identifier_throws(remainder(m)) \/ match_name_throws(remainder(m), "identifier")
    THEN stop(m, "exception")
    ELSE IF match_private_identifier(remainder(m)) # 0
    THEN expect_private_identifier(m, match_private_identifier(remainder(m)))
    ELSE IF match_identifier(remainder(m)) # 0
    THEN expect_symbols(m, match_identifier(remainder(m)))
    ELSE IF match_operator_or_punctuation(remainder(m)) # "none"
    THEN expect_operator_or_punctuation(m, match_operator_or_punctuation(remainder(m)))
    ELSE consume_error(m)

---------------------------------------------------------------------------
(* The loops and continuations, each from one machine state to the next.   *)

\* index += hashbang_length, line 1264.
expect_hashbang_comment_end(m, hashbang_length) ==
    IF running(m) THEN [m EXCEPT !.index = @ + hashbang_length] ELSE m

\* expect_hashbang_comment once match_hashbang_comment has matched.
expect_hashbang_comment(m) ==
    expect_hashbang_comment_end(
        emit(emit(m, m.index, 2, "comment_delimiter"),
             m.index + 2, match_hashbang_comment(remainder(m), m.at_start_of_file) - 2, "comment"),
        match_hashbang_comment(remainder(m), m.at_start_of_file))

\* Lines 988-993 after at_start_of_file = false: expect_hashbang_comment
\* reads the member that was just cleared.
scan_at_start_of_file(m) ==
    IF match_hashbang_comment(remainder(m), m.at_start_of_file) # 0
    THEN expect_hashbang_comment(m)
    ELSE dispatch(m)

\* One iteration of the loop of operator().
scan_iteration(m) ==
    IF match_whitespace(remainder(m)) # 0
    THEN [m EXCEPT !.index = @ + match_whitespace(remainder(m))]
    ELSE IF m.at_start_of_file
    THEN scan_at_start_of_file([m EXCEPT !.at_start_of_file = FALSE])
    ELSE dispatch(m)

\* js_returns without the brace level: any "}" ends the embedded scan.
js_returns_at_any_brace(m) ==
    IF m.index >= Len(source) THEN TRUE
    ELSE source[m.index + 1] = "}"

\* The condition under which consume_js_before_closing_brace returns.
js_returns(m) ==
    IF m.index >= Len(source) THEN TRUE
    ELSE source[m.index + 1] = "}" /\ top(m).n - 1 < 0

\* One iteration of the loop of consume_js_before_closing_brace.
js_iteration(m) ==
    IF source[m.index + 1] = "{"
    THEN emit_and_advance(set_top(m, [top(m) EXCEPT !.n = @ + 1]), 1, "sym_brace")
    ELSE IF source[m.index + 1] = "}"
    THEN emit_and_advance(set_top(m, [top(m) EXCEPT !.n = @ - 1]), 1, "sym_brace")
    ELSE IF match_whitespace(remainder(m)) # 0
    THEN [m EXCEPT !.index = @ + match_whitespace(remainder(m))]
    ELSE dispatch(m)

\* expect_jsx_in_js after consume_jsx_tag has returned.
jsx_tag_done(m) ==
    LET f == top(m) IN
    IF f.type # "self_closing"
    THEN IF f.type \notin {"opening", "fragment_opening"} THEN stop(m, "assert_failed")
         ELSE IF m.index > Len(source) THEN stop(m, "exception")
         ELSE push(set_top(m, [f EXCEPT !.pc = "jsx_children_done"]), [Frame("children") EXCEPT !.rem = m.index])
    ELSE pop(set_can_be_regex(m, TRUE))

\* expect_jsx_in_js after consume_jsx_children_and_closing_tag has returned.
jsx_children_done(m) == pop(set_can_be_regex(m, TRUE))

\* The consumer with names highlighted as identifiers.
consume_event_names_as_id(m, e) ==
    CASE e.kind = "whitespace" -> advance(m, e.length)
      [] e.kind = "block_comment" ->
             highlight_block_comment(m, [length |-> e.length, is_terminated |-> e.is_terminated])
      [] e.kind = "line_comment" -> highlight_line_comment(m, e.length)
      [] e.kind \in {"opening_symbol", "closing_symbol", "attribute_equals"} ->
             emit_and_advance(m, 1, "sym_punc")
      [] e.kind \in {"element_name", "attribute_name"} -> emit_and_advance(m, e.length, "id")
      [] e.kind = "string_literal" ->
             highlight_string_literal(m, [length |-> e.length, terminated |-> e.is_terminated])

\* Highlighter_As_Consumer: what one call made on the consumer does, for
\* every call but braced.
consume_event(m, e) ==
    CASE e.kind = "whitespace" -> advance(m, e.length)
      [] e.kind = "block_comment" ->
             highlight_block_comment(m, [length |-> e.length, is_terminated |-> e.is_terminated])
      [] e.kind = "line_comment" -> highlight_line_comment(m, e.length)
      [] e.kind \in {"opening_symbol", "closing_symbol", "attribute_equals"} ->
             emit_and_advance(m, 1, "sym_punc")
      [] e.kind \in {"element_name", "attribute_name"} -> emit_and_advance(m, e.length, "markup_tag")
      [] e.kind = "string_literal" ->
             highlight_string_literal(m, [length |-> e.length, terminated |-> e.is_terminated])

\* consume_jsx_tag: what the consumer does with the events of the tag, up to
\* and including the next braced expression.
RECURSIVE consume_jsx_tag(_, _)
consume_jsx_tag(m, ev) ==
    IF ~running(m) THEN m
    ELSE IF ev = <<>> THEN (IF top(m).undefined THEN stop(m, "undefined") ELSE pop(m))
    ELSE IF ev[1].kind # "braced" THEN consume_jsx_tag(consume_event(m, ev[1]), Tail(ev))
    ELSE IF ~(ev[1].is_terminated /\ ev[1].length >= 2) THEN stop(m, "assert_failed")
    ELSE highlight_jsx_braced(set_top(m, [top(m) EXCEPT !.events = Tail(ev)]),
                              [length |-> ev[1].length, is_terminated |-> ev[1].is_terminated])

\* highlight_jsx_braced after consume_js_before_closing_brace has returned.
braced_js_done(m) == pop(highlight_jsx_braced_end(m, top(m).is_terminated))

\* rem.find_first_of(u8"&{}<>"), -1 for npos.
RECURSIVE find_first_of(_, _)
find_first_of(rem, i) ==
    IF i >= Len(rem) THEN -1
    ELSE IF rem[i + 1] \in {"&", "{", "}", "<", ">"} THEN i
    ELSE find_first_of(rem, i + 1)

\* html::match_character_reference (ulight/impl/html.hpp): "&", a name of
\* letters and digits, ";".
match_character_reference(str) ==
    LET name == match_name_loop(str, "identifier", 1)
    IN IF starts_with(str, <<"&">>) /\ name > 1 /\ name < Len(str) /\ str[name + 1] = ";"
       THEN name + 1
       ELSE 0

\* One iteration of the loop of consume_jsx_children_and_closing_tag; the
\* frame's rem is the offset in source at which the local view rem begins.
children_iteration(m) ==
    LET f == top(m)
        error(m1, r1) == set_top(emit_and_advance(m1, 1, "error"), [f EXCEPT !.rem = r1 + 1])
        reference(m1, r1, ref) ==
            IF ref # 0
            THEN set_top(emit_and_advance(m1, ref, "escape"), [f EXCEPT !.rem = r1 + ref])
            ELSE set_top(advance(m1, 1), [f EXCEPT !.rem = r1 + 1])
        element(m1, r1, tag) ==
            IF tag.undefined THEN stop(m1, "undefined")
            ELSE IF tag.thrown THEN stop(m1, "exception")
            ELSE IF tag.length = 0 THEN error(m1, r1)
            ELSE call_consume_jsx_tag(set_top(m1, [f EXCEPT !.pc = "children_tag_done", !.rem = r1,
                                                            !.length = tag.length, !.type = tag.type]))
        expression(m1, r1, braced) ==
            IF braced.length # 0
            THEN highlight_jsx_braced(set_top(m1, [f EXCEPT !.pc = "children_braced_done", !.rem = r1,
                                                            !.length = braced.length]), braced)
            ELSE error(m1, r1)
        switch(m1, r1, rem1) ==
            CASE rem1[1] = "&" -> reference(m1, r1, match_character_reference(rem1))
              [] rem1[1] = "<" -> element(m1, r1, match_jsx_tag(rem1))
              [] rem1[1] = "{" -> expression(m1, r1, match_jsx_braced(rem1))
              [] OTHER -> error(m1, r1)
        special(rem, safe_length) ==
            IF safe_length = -1 THEN pop(advance(m, Len(rem)))
            ELSE switch(advance(m, safe_length), f.rem + safe_length, substr(rem, safe_length))
        text(rem) == special(rem, find_first_of(rem, 0))
    IN text(substr(source, f.rem))

\* The case '<' with a closing tag that never ends the children.
children_tag_done_never_closes(m) ==
    set_top(m, [top(m) EXCEPT !.pc = "children", !.rem = @ + top(m).length])

\* The case '<' after consume_jsx_tag has returned, lines 1185-1194.
children_tag_done(m) ==
    LET f == top(m)
        depth1 == IF f.type \in {"opening", "fragment_opening"} THEN f.n + 1 ELSE f.n
        closes == f.type \in {"closing", "fragment_closing"}
    IN IF closes /\ depth1 - 1 < 0
       THEN pop(m)
       ELSE set_top(m, [f EXCEPT !.pc = "children", !.rem = @ + f.length,
                                 !.n = IF closes THEN depth1 - 1 ELSE depth1])

\* The case '{' after highlight_jsx_braced has returned, line 1208.
children_braced_done(m) ==
    LET f == top(m)
    IN IF f.rem + f.length > Len(source) THEN stop(m, "undefined")
       ELSE set_top(m, [f EXCEPT !.pc = "children", !.rem = @ + f.length])

\* flush_chars with the run placed one code unit early.
flush_chars_one_early(m, chars) == IF chars # 0 THEN emit(m, m.index - chars - 1, chars, "string") ELSE m

flush_chars(m, chars) == IF chars # 0 THEN emit(m, m.index - chars, chars, "string") ELSE m

\* One iteration of the loop of consume_template, or what follows the loop;
\* the frame's n is the local chars.
template_iteration(m) ==
    LET f == top(m)
        chars == f.n
        plain == set_top(advance(m, 1), [f EXCEPT !.n = chars + 1])
        continue(continuation) ==
            IF continuation # 0
            THEN set_top(advance(emit_and_advance(flush_chars(m, chars), 1, "escape"), continuation - 1),
                         [f EXCEPT !.n = continuation - 1])
            ELSE plain
        switch(rem, c) ==
            CASE c = Backtick -> pop(emit_and_advance(flush_chars(m, chars), 1, "string_delim"))
              [] c = "$" ->
                    IF starts_with(rem, <<"$", "{">>)
                    THEN call_consume_js_before_closing_brace(
                             set_top(emit_and_advance(flush_chars(m, chars), 2, "escape"),
                                     [f EXCEPT !.pc = "template_subst_done", !.n = 0]))
                    ELSE plain
              [] c = "\\" -> continue(match_line_continuation(rem))
              [] OTHER -> plain
    IN IF m.index >= Len(source) THEN pop(flush_chars(m, chars))
       ELSE switch(remainder(m), source[m.index + 1])

\* consume_template after consume_js_before_closing_brace has returned.
template_subst_done(m) ==
    LET f == top(m)
        m1 == IF m.index < Len(source)
              THEN IF source[m.index + 1] # "}" THEN stop(m, "assert_failed")
                   ELSE emit_and_advance(m, 1, "escape")
              ELSE m
    IN set_top(m1, [f EXCEPT !.pc = "template"])

---------------------------------------------------------------------------
(* The state machine.                                                      *)

Commit(m) ==
    /\ index' = m.index
    /\ can_be_regex' = m.can_be_regex
    /\ at_start_of_file' = m.at_start_of_file
    /\ out' = m.out
    /\ stack' = m.stack
    /\ status' = m.status
    /\ UNCHANGED <<source, past_end, debug>>

\* The innermost active call is at pc.
In(pc) == status = "running" /\ stack[Len(stack)].pc = pc

\* The loop frame records the cursor at which its iteration begins.
begin_iteration(m) == set_top(m, [top(m) EXCEPT !.start = m.index])

Scan ==
    /\ In("top") /\ index < Len(source)
    /\ Commit(scan_iteration(begin_iteration(Cur)))

ScanReturn ==
    /\ In("top") /\ index >= Len(source)
    /\ Commit([Cur EXCEPT !.status = "done"])

BracedJs ==
    /\ In("js") /\ ~js_returns(Cur)
    /\ Commit(js_iteration(begin_iteration(Cur)))

BracedJsReturn ==
    /\ In("js") /\ js_returns(Cur)
    /\ Commit(pop(Cur))

JsxTagDone == In("jsx_tag_done") /\ Commit(jsx_tag_done(Cur))

JsxChildrenDone == In("jsx_children_done") /\ Commit(jsx_children_done(Cur))

JsxTag == In("tag") /\ Commit(consume_jsx_tag(Cur, top(Cur).events))

BracedJsDone == In("braced_js_done") /\ Commit(braced_js_done(Cur))

JsxChildren ==
    /\ In("children") /\ top(Cur).rem < Len(source)
    /\ Commit(children_iteration(Cur))

JsxChildrenReturn ==
    /\ In("children") /\ top(Cur).rem >= Len(source)
    /\ Commit(pop(Cur))

ChildrenTagDone == In("children_tag_done") /\ Commit(children_tag_done(Cur))

ChildrenBracedDone == In("children_braced_done") /\ Commit(children_braced_done(Cur))

Template == In("template") /\ Commit(template_iteration(Cur))

TemplateSubstDone == In("template_subst_done") /\ Commit(template_subst_done(Cur))

Next ==
    \/ Scan
    \/ ScanReturn
    \/ BracedJs
    \/ BracedJsReturn
    \/ JsxTagDone
    \/ JsxChildrenDone
    \/ JsxTag
    \/ BracedJsDone
    \/ JsxChildren
    \/ JsxChildrenReturn
    \/ ChildrenTagDone
    \/ ChildrenBracedDone
    \/ Template
    \/ TemplateSubstDone

---------------------------------------------------------------------------
(* The inputs of the scans that are checked.                               *)

\* All concatenations of at most n of the pieces.
RECURSIVE Concats(_, _)
Concats(pieces, n) ==
    IF n = 0 THEN {<<>>}
    ELSE LET shorter == Concats(pieces, n - 1)
         IN shorter \cup {s \o p : s \in shorter, p \in pieces}

\* Comments, strings, division and the error fallback.
MaxLexical == 3

LexicalPieces == {<<"/">>, <<"/", "*">>, <<"*", "/">>, <<"a">>, <<"'">>, <<"\n">>, <<"\\">>, <<" ">>}

\* Numeric literals and what may follow them.
MaxNumeric == 3

NumericPieces == {<<"1">>, <<"_">>, <<".">>, <<"e">>, <<"n">>, <<";">>, <<"0", "x">>}

JsxNames == {<<"a">>, <<"d", "i", "v">>}

JsxIds == {<<"x">>, <<"y", "1">>}

JsxTails == {<<>>, <<";">>, <<" ", "z">>}

\* <name id={x}>{y}</name>
JsxElements ==
    {<<"<">> \o n \o <<" ", "i", "d", "=", "{">> \o x \o <<"}", ">", "{">> \o y \o <<"}", "<", "/">> \o n \o <<">">> :
        n \in JsxNames, x \in JsxIds, y \in JsxIds}

\* An element and what follows it.
JsxElementInputs == {e \o t : e \in JsxElements, t \in JsxTails}

\* An opening tag that ends the input.
OpenTags == {<<"<">> \o n \o <<">">> : n \in JsxNames} \cup {<<"<">> \o n \o <<" ", "b", ">">> : n \in JsxNames}

\* <a><b/><><c>x</c></></a>;
NestedExample ==
    <<"<", "a", ">", "<", "b", "/", ">", "<", ">", "<", "c", ">", "x", "<", "/", "c", ">",
      "<", "/", ">", "<", "/", "a", ">", ";">>

\* <a>{`}`}</a> with a "}" inside the template of the child expression.
BracedTemplateChild ==
    <<"<", "a", ">", "{", Backtick, "}", Backtick, "}", "<", "/", "a", ">">>

\* <a b={`}>`}/> with "}>" inside the template of the attribute value.
BracedTemplateAttribute ==
    <<"<", "a", " ", "b", "=", "{", Backtick, "}", ">", Backtick, "}", "/", ">">>

\* A template with a substitution, a block comment and a JSX tag.
TemplateCommentTag ==
    <<Backtick, "a", "$", "{", "1", "}", "b", Backtick, "/", "*", "c", "*", "/", "<", "d", "/", ">">>

Examples == {
    TemplateCommentTag,
    <<"a", "/", "b">>,
    <<"r", "e", "t", "u", "r", "n", " ", "/", "x", "/", ".", "t", "e", "s", "t", "(", "s", ")">>,
    <<Backtick, "a", "$", "{", " ", "{", "b", ":", "1", "}", " ", "}", "c", Backtick>>,
    <<Backtick, "$", "{", "\\", "}", Backtick>>,
    <<"<", "a", " ", "b", "=", "{", " ", "{", "c", ":", "1", "}", " ", "}", "/", ">">>,
    <<"<", "a", "/", ">">>,
    <<"<", "a", ">", "<", "b", ">", "x", "<", "/", "b", ">", "<", "/", "a", ">", "+", "1">>,
    <<"0", "x", "1", "F">>,
    <<"1", "_", "_", "0">>,
    <<"1", "n">>,
    <<"1", ".", "5", "n">>,
    <<"1", "_", "0">>,
    <<"@">>,
    <<"<", "a", ">", "x", ">", "}", "<", " ", "<", "/", "a", ">">>,
    <<"<", "a", ">", "{">>,
    <<"<", "a", ">", "y", "{", "z">>,
    <<"a", "<", "b", ">", "c">>,
    <<"1", " ", "<", "b", "/", ">">>,
    <<"1", "<", "2">>,
    <<"a", "<", "=", "b">>,
    <<"a", "<", "<", "1">>,
    <<"a", "<", "<", "=", "1">>,
    <<"<", "/", "a", ">">>,
    <<Backtick, "$", "{", "a", "<", "b", "}", Backtick>>,
    <<Backtick, "$", "{", "a", "{", "}", "}", Backtick>>,
    <<"<", "a", ">", "{", " ">>,
    <<"#", "!", "a">>,
    <<" ", "#", "!", "a", "\n", "b">>,
    <<"#">>,
    NestedExample,
    BracedTemplateChild,
    BracedTemplateAttribute,
    <<Lead, Cont>>,
    <<"a", Lead, Cont, "b">>,
    <<"/", "x", "/", "g", Lead, Cont>>,
    <<Backtick, "a", Backtick, "/", "b", "/">>,
    <<"x", "=", Backtick, "$", "{", "a", "}", Backtick, "/", "2">>,
    <<Backtick, "a", "\\", Backtick, "b", Backtick>>,
    <<Backtick, "\\", "$", "{", "a", "}", Backtick>>,
    <<"_", "x">>,
    <<"_", "_", "p", "r", "o", "t", "o", "_", "_">>,
    <<"<", "a", ">", "{", "'", "}", "'", "/", "*", "{", "*", "/", "}", "<", "/", "a", ">">>,
    <<"<", " ", "/", "a", ">">> }

\* Texts in which the matching of a name arrives at a malformed code unit.
MalformedNames == {
    <<Malformed>>,
    <<"a", Malformed>>,
    <<" ", Malformed, "a">>,
    <<"#", "a", Malformed>>,
    <<"1", Malformed>>,
    <<"<", Malformed, ">">>,
    <<"<", "a", " ", Malformed, ">">>,
    <<"<", "a", ">", "<", "b", Malformed>>,
    <<Backtick, "$", "{", "a", Malformed, "}", Backtick>> }

\* Texts with a malformed code unit where no name is matched.
MalformedElsewhere == {
    <<"'", Malformed, "'">>,
    <<"/", "/", Malformed>>,
    <<"<", "a", ">", Malformed, "<", "/", "a", ">">> }

\* Every operator and punctuation mark, alone and followed by "=".
OperatorInputs ==
    {token_types[i].code \o t : i \in {j \in 1..Len(token_types) : token_types[j].highlight # "keyword"},
                                t \in {<<>>, <<"=">>}}

Inputs ==
    Examples \cup JsxElementInputs \cup OpenTags \cup MalformedNames \cup MalformedElsewhere
    \cup OperatorInputs
    \cup Concats(LexicalPieces, MaxLexical) \cup Concats(NumericPieces, MaxNumeric)

\* The bytes a read past the end of the buffer may find.
PastEndBytes == {NUL, "}", "5"}

\* Only a view that ends with "." or a text with a "{" is ever read past its end.
reads_past_end(s) == s # <<>> /\ (s[Len(s)] = "." \/ \E i \in 1..Len(s) : s[i] = "{")

Init ==
    /\ source \in Inputs
    /\ past_end \in (IF reads_past_end(source) THEN PastEndBytes ELSE {NUL})
    /\ debug \in BOOLEAN
    /\ index = 0
    /\ can_be_regex = TRUE
    /\ at_start_of_file = TRUE
    /\ out = [c \in BOOLEAN |-> <<>>]
    /\ stack = <<Frame("top")>>
    /\ status = "running"

Spec == Init /\ [][Next]_vars

---------------------------------------------------------------------------
(* The properties.                                                         *)

Record(begin, length, type) == [begin |-> begin, length |-> length, type |-> type]

Failures == {"assert_failed", "exception", "undefined"}

\* C1: every scan terminates by returning true; it never ends in a failed
\* assertion, an exception or undefined behaviour.
C1_ScanReturnsTrue == status \notin Failures

\* The records of buffer exactly tile [0, length(source)).
Tiles(buffer) ==
    IF buffer = <<>> THEN Len(source) = 0
    ELSE /\ buffer[1].begin = 0
         /\ \A i \in 1..(Len(buffer) - 1) : buffer[i + 1].begin = buffer[i].begin + buffer[i].length
         /\ buffer[Len(buffer)].begin + buffer[Len(buffer)].length = Len(source)

\* C2 as stated: when a scan finishes, the records in emission order exactly
\* tile [0, length(source)), with no gaps and no overlaps.
C2_ExactTiling == status = "done" => \A c \in BOOLEAN : Tiles(out[c])

\* C2 as amended: the records in emission order are ascending and do not
\* overlap, each beginning at or after the end of the one before; there may
\* be gaps.
C2_AscendingNoOverlap ==
    \A c \in BOOLEAN : \A i \in 1..(Len(out[c]) - 1) :
        out[c][i].begin + out[c][i].length <= out[c][i + 1].begin

\* A finished scan whose records leave a gap.
C2_GapWitness ==
    /\ status = "done"
    /\ \E i \in 1..(Len(out[FALSE]) - 1) :
           out[FALSE][i].begin + out[FALSE][i].length < out[FALSE][i + 1].begin

\* Back at the head of a dispatch loop after an iteration, the cursor is past
\* the cursor the iteration began with.
C3_IterationAdvances ==
    (status \notin Failures /\ top(Cur).pc \in {"top", "js"} /\ top(Cur).start # -1)
        => index > top(Cur).start

\* No production matches at the cursor: every matcher of the chain returns,
\* and returns no match.
C3_Unmatched ==
    /\ match_whitespace(remainder(Cur)) = 0
    /\ match_hashbang_comment(remainder(Cur), at_start_of_file) = 0
    /\ match_line_comment(remainder(Cur)) = 0
    /\ match_block_comment(remainder(Cur)).length = 0
    /\ ~match_jsx_tag_impl(remainder(Cur), "non_closing").thrown
    /\ match_jsx_tag_impl(remainder(Cur), "non_closing").length = 0
    /\ match_string_literal(remainder(Cur)).length = 0
    /\ ~starts_with(remainder(Cur), <<Backtick>>)
    /\ regex_length(remainder(Cur), can_be_regex) = 0
    /\ match_numeric_literal(remainder(Cur)).length = 0
    /\ ~match_private_identifier_throws(remainder(Cur))
    /\ match_private_identifier(remainder(Cur)) = 0
    /\ ~match_name_throws(remainder(Cur), "identifier")
    /\ match_identifier(remainder(Cur)) = 0
    /\ match_operator_or_punctuation(remainder(Cur)) = "none"

\* An iteration of a dispatch loop in which no production matches emits one
\* error record of one byte at the cursor and advances the cursor by 1.
C3_ErrorFallback ==
    ((In("top") /\ index < Len(source)) \/ (In("js") /\ ~js_returns(Cur) /\ source[index + 1] \notin {"{", "}"}))
    /\ C3_Unmatched
        => /\ index' = index + 1
           /\ out'[FALSE] = Append(out[FALSE], Record(index, 1, "error"))
           /\ status' = "running"

\* C3: every iteration of the top-level loop and of the braced-JS loop
\* strictly increases the cursor, and when no production matches exactly one
\* byte is emitted as an error record and the cursor advances by exactly 1.
C3_LoopsAdvance == []C3_IterationAdvances /\ [][C3_ErrorFallback]_vars

\* The braced-JS loop has just taken the error fallback.
C3_FallbackWitness ==
    /\ In("js") /\ top(Cur).start # -1 /\ index = top(Cur).start + 1
    /\ out[FALSE] # <<>>
    /\ out[FALSE][Len(out[FALSE])] = Record(top(Cur).start, 1, "error")

\* C4: every emitted record has length > 0.
C4_RecordsNonEmpty == \A c \in BOOLEAN : \A i \in 1..Len(out[c]) : out[c][i].length > 0

\* C5: the cursor never exceeds length(source), and every emitted record
\* begins inside the source and ends at or before its end.
C5_InBounds ==
    /\ index <= Len(source)
    /\ \A c \in BOOLEAN : \A i \in 1..Len(out[c]) :
           /\ out[c][i].begin < Len(source)
           /\ out[c][i].begin + out[c][i].length <= Len(source)

\* The per-position classification a buffer stands for.
Expand(buffer) ==
    UNION {{<<p, buffer[i].type>> : p \in buffer[i].begin..(buffer[i].begin + buffer[i].length - 1)} :
               i \in 1..Len(buffer)}

\* The records of buffer with every record that has the category of the one
\* before it and begins where that one ends merged into it.
RECURSIVE Merged(_)
Merged(buffer) ==
    IF Len(buffer) <= 1 THEN buffer
    ELSE LET before == Merged(SubSeq(buffer, 1, Len(buffer) - 1))
             last == before[Len(before)]
             r == buffer[Len(buffer)]
         IN IF last.type = r.type /\ last.begin + last.length = r.begin
            THEN [before EXCEPT ![Len(before)].length = @ + r.length]
            ELSE Append(before, r)

\* C6: the records produced with coalescing expand to the same per-position
\* classification as those produced without, and they are the records
\* produced without, merged only where a record has the category of the one
\* before it and begins exactly where that one ends.
C6_CoalescingKeepsClassification ==
    /\ Expand(out[TRUE]) = Expand(out[FALSE])
    /\ out[TRUE] = Merged(out[FALSE])

\* A finished scan in which coalescing merged records.
C6_MergeWitness == status = "done" /\ Len(out[TRUE]) < Len(out[FALSE])

DivisionExample == <<"a", "/", "b">>

RegexExample == <<"r", "e", "t", "u", "r", "n", " ", "/", "x", "/", ".", "t", "e", "s", "t", "(", "s", ")">>

\* C7: in a/b the "/" is emitted as the division operator, can_be_regex
\* being false after the identifier; in return /x/.test(s) the /x/ is
\* emitted as one regex-literal record, can_be_regex being true after return.
C7_DivisionOrRegex ==
    /\ source = DivisionExample =>
           /\ index = 1 => ~can_be_regex
           /\ status = "done" =>
                  out[FALSE] = <<Record(0, 1, "id"), Record(1, 1, "sym_op"), Record(2, 1, "id")>>
    /\ source = RegexExample =>
           /\ index \in {6, 7} => can_be_regex
           /\ status = "done" =>
                  out[FALSE] = <<Record(0, 6, "keyword"), Record(7, 3, "string"), Record(10, 1, "sym_punc"),
                                 Record(11, 4, "id"), Record(15, 1, "sym_parens"), Record(16, 1, "id"),
                                 Record(17, 1, "sym_parens")>>

\* The scan of return /x/.test(s) has finished.
C7_RegexWitness == source = RegexExample /\ status = "done" /\ Len(out[FALSE]) = 7

\* A "_" of the literal that is first or last in its digit run or next to
\* another "_"; the digits are those of the literal's base.
bad_separator(literal) ==
    \E i \in 1..Len(literal) :
        /\ literal[i] = "_"
        /\ \/ i = 1
           \/ i = Len(literal)
           \/ ~is_ascii_digit_base(literal[i - 1], numeric_base(literal))
           \/ ~is_ascii_digit_base(literal[i + 1], numeric_base(literal))

\* C8: a literal is flagged erroneous when a digit run has adjacent "_" or a
\* "_" as first or last character, when a radix prefix or a BigInt suffix
\* is combined with a fractional or exponent part; 0x1F and 1n are not
\* erroneous; the whole literal is one record, error when erroneous and
\* number otherwise.
C8_NumericLiteralErrors ==
    (match_numeric_literal(source).length # 0 /\ out[FALSE] # <<>>) =>
        LET number == match_numeric_literal(source)
        IN /\ bad_separator(prefix(source, number.length)) => number.erroneous
           /\ (number.prefix # 0 /\ (number.fractional # 0 \/ number.exponent # 0)) => number.erroneous
           /\ (number.suffix # 0 /\ (number.fractional # 0 \/ number.exponent # 0)) => number.erroneous
           /\ source \in {<<"0", "x", "1", "F">>, <<"1", "n">>} => ~number.erroneous
           /\ out[FALSE][1] = Record(0, number.length, IF number.erroneous THEN "error" ELSE "number")

JsxElement(n, x, y) ==
    <<"<">> \o n \o <<" ", "i", "d", "=", "{">> \o x \o <<"}", ">", "{">> \o y \o <<"}", "<", "/">> \o n \o <<">">>

\* The records of <n id={x}>{y}</n>: the opening tag, the braced child and
\* the closing tag.
JsxElementRecords(n, x, y) ==
    LET a == Len(n) + 6 + Len(x)
        b == a + 3 + Len(y)
    IN <<Record(0, 1, "sym_punc"), Record(1, Len(n), "markup_tag"),
         Record(Len(n) + 2, 2, "markup_tag"), Record(Len(n) + 4, 1, "sym_punc"),
         Record(Len(n) + 5, 1, "sym_brace"), Record(Len(n) + 6, Len(x), "id"), Record(a, 1, "sym_brace"),
         Record(a + 1, 1, "sym_punc"),
         Record(a + 2, 1, "sym_brace"), Record(a + 3, Len(y), "id"), Record(b, 1, "sym_brace"),
         Record(b + 1, 1, "sym_punc"), Record(b + 2, 1, "sym_punc"), Record(b + 3, Len(n), "markup_tag"),
         Record(b + 3 + Len(n), 1, "sym_punc")>>

\* C9: an element <n id={x}>{y}</n> in expression position is scanned as one
\* opening tag, one braced child and one closing tag with no error record
\* and no failure, and the children scan returns with the cursor immediately
\* after the closing tag.
C9_WellFormedElement ==
    \A n \in JsxNames, x \in JsxIds, y \in JsxIds, t \in JsxTails :
        source = JsxElement(n, x, y) \o t =>
            /\ status \notin Failures
            /\ \A i \in 1..Len(out[FALSE]) : out[FALSE][i].type # "error"
            /\ In("jsx_children_done") => index = Len(JsxElement(n, x, y))
            /\ status = "done" =>
                   /\ Len(out[FALSE]) >= 15
                   /\ SubSeq(out[FALSE], 1, 15) = JsxElementRecords(n, x, y)

\* The children scan of an element that is followed by more text has returned.
C9_ChildrenEndWitness ==
    /\ source \in JsxElementInputs /\ source \notin JsxElements
    /\ In("jsx_children_done") /\ index < Len(source)

\* The length of the tag name of an opening tag.
open_tag_name_length(s) ==
    CHOOSE k \in 1..(Len(s) - 2) : s[k + 2] \in {" ", ">"} /\ \A j \in 2..(k + 1) : s[j] \notin {" ", ">"}

\* C10: an opening tag followed by the end of the input is classified as a
\* tag (punctuation "<", the tag name, what the tag holds, punctuation ">"),
\* the children scan returns with the cursor at the end of the input, and
\* the scan never ends in a failure.
C10_UnclosedTag ==
    source \in OpenTags =>
        /\ status \notin Failures
        /\ In("jsx_children_done") => index = Len(source)
        /\ status = "done" =>
               /\ Len(out[FALSE]) >= 3
               /\ out[FALSE][1] = Record(0, 1, "sym_punc")
               /\ out[FALSE][2] = Record(1, open_tag_name_length(source), "markup_tag")
               /\ out[FALSE][Len(out[FALSE])] = Record(Len(source) - 1, 1, "sym_punc")
               /\ \A i \in 1..Len(out[FALSE]) : out[FALSE][i].type \in {"sym_punc", "markup_tag"}

\* The children scan of <div> has returned at the end of the input.
C10_ChildrenEndWitness ==
    /\ source = <<"<", "d", "i", "v", ">">>
    /\ In("jsx_children_done") /\ index = 5
    /\ out[FALSE] = <<Record(0, 1, "sym_punc"), Record(1, 3, "markup_tag"), Record(4, 1, "sym_punc")>>

TemplateExample == <<Backtick, "a", "$", "{", " ", "{", "b", ":", "1", "}", " ", "}", "c", Backtick>>

BracedAttributeExample == <<"<", "a", " ", "b", "=", "{", " ", "{", "c", ":", "1", "}", " ", "}", "/", ">">>

\* In the embedded JS scan a "{" is emitted and counted, and a "}" that
\* closes a counted "{" is emitted and the scan goes on.
C11_BalancedBraceContinues ==
    (In("js") /\ index < Len(source) /\ (source[index + 1] = "{" \/ (source[index + 1] = "}" /\ top(Cur).n > 0)))
        => /\ status' = "running"
           /\ Len(stack') = Len(stack)
           /\ stack'[Len(stack')].pc = "js"
           /\ stack'[Len(stack')].n = top(Cur).n + (IF source[index + 1] = "{" THEN 1 ELSE -1)
           /\ index' = index + 1
           /\ out'[FALSE] = Append(out[FALSE], Record(index, 1, "sym_brace"))

\* The embedded JS scan returns only at a "}" no counted "{" is open for, or
\* at the end of the input, and it leaves the cursor where it is.
C11_UnmatchedBraceEnds ==
    (In("js") /\ status' = "running" /\ Len(stack') < Len(stack))
        => /\ index' = index
           /\ out' = out
           /\ index >= Len(source) \/ (source[index + 1] = "}" /\ top(Cur).n = 0)

\* The records of the two examples once their scans have finished.
C11_Examples ==
    /\ (source = TemplateExample /\ status = "done") =>
           out[FALSE] = <<Record(0, 1, "string_delim"), Record(1, 1, "string"), Record(2, 2, "escape"),
                          Record(5, 1, "sym_brace"), Record(6, 1, "id"), Record(7, 1, "sym_punc"),
                          Record(8, 1, "number"), Record(9, 1, "sym_brace"), Record(11, 1, "escape"),
                          Record(12, 1, "string"), Record(13, 1, "string_delim")>>
    /\ (source = BracedAttributeExample /\ status = "done") =>
           out[FALSE] = <<Record(0, 1, "sym_punc"), Record(1, 1, "markup_tag"), Record(3, 1, "markup_tag"),
                          Record(4, 1, "sym_punc"), Record(5, 1, "sym_brace"), Record(7, 1, "sym_brace"),
                          Record(8, 1, "id"), Record(9, 1, "sym_punc"), Record(10, 1, "number"),
                          Record(11, 1, "sym_brace"), Record(13, 1, "sym_brace"), Record(14, 1, "sym_punc"),
                          Record(15, 1, "sym_punc")>>

\* C11: in the JS embedded in a template substitution or a JSX braced
\* expression balanced "{" "}" pairs do not end the embedded scan; only the
\* first "}" with no open "{" (or the end of the input) ends it, that "}" is
\* not consumed by the embedded scan, and after a template substitution the
\* text up to the closing backtick is string content again.
C11_BraceDepth ==
    []C11_Examples /\ [][C11_BalancedBraceContinues]_vars /\ [][C11_UnmatchedBraceEnds]_vars

\* The substitution of the template example has ended at its unmatched "}",
\* after the object literal's braces were passed.
C11_SubstitutionEndWitness ==
    /\ source = TemplateExample /\ In("template_subst_done") /\ index = 11
    /\ out[FALSE][Len(out[FALSE])] = Record(9, 1, "sym_brace")

\* No production of the dispatch chain matches at the start of s: every
\* matcher returns, and returns no match.
C12_NoProductionMatches(s) ==
    /\ match_whitespace(s) = 0
    /\ match_hashbang_comment(s, TRUE) = 0
    /\ match_line_comment(s) = 0
    /\ match_block_comment(s).length = 0
    /\ match_jsx_tag_impl(s, "non_closing").length = 0
    /\ match_string_literal(s).length = 0
    /\ ~starts_with(s, <<Backtick>>)
    /\ regex_length(s, TRUE) = 0
    /\ match_numeric_literal(s).length = 0
    /\ ~match_private_identifier_throws(s)
    /\ match_private_identifier(s) = 0
    /\ ~match_name_throws(s, "identifier")
    /\ match_identifier(s) = 0
    /\ match_operator_or_punctuation(s) = "none"

\* C12: for an input of exactly one byte that no production matches, the
\* scan does not fail and finishes with exactly one record: begin 0,
\* length 1, category error.
C12_StrayByte ==
    (Len(source) = 1 /\ C12_NoProductionMatches(source)) =>
        /\ status \notin Failures
        /\ status = "done" => \A c \in BOOLEAN : out[c] = <<Record(0, 1, "error")>>

\* The scan of a lone backslash has finished.
C12_StrayByteWitness ==
    /\ source = <<"\\">> /\ status = "done" /\ index = 1
    /\ out[FALSE] = <<Record(0, 1, "error")>>

\* C13: when the first text of the input that is not whitespace is "#!",
\* the finished scan has emitted "#!" as a comment-delimiter record and the
\* rest of the line as a comment record, and the start-of-file flag is
\* cleared.
C13_HashbangRecognized ==
    LET white == match_whitespace(source)
        hashbang_length == match_hashbang_comment(substr(source, white), TRUE)
    IN (status = "done" /\ starts_with(substr(source, white), <<"#", "!">>)) =>
           /\ ~at_start_of_file
           /\ Len(out[FALSE]) >= 1
           /\ out[FALSE][1] = Record(white, 2, "comment_delimiter")
           /\ hashbang_length > 2 =>
                  /\ Len(out[FALSE]) >= 2
                  /\ out[FALSE][2] = Record(white + 2, hashbang_length - 2, "comment")

\* C14: when the input begins with a string literal that is not
\* terminated, the scan fails no assertion while it consumes the literal,
\* and the literal is emitted under the string categories.
C14_UnterminatedStringConsumed ==
    LET string == match_string_literal(source)
    IN (string.length # 0 /\ ~string.terminated) =>
           /\ (index <= string.length) => status \notin Failures
           /\ \A i \in 1..Len(out[FALSE]) :
                  out[FALSE][i].begin < string.length => out[FALSE][i].type \in {"string_delim", "string"}

\* The consumed lengths the matchers report for the span str.
C15_Lengths(str) ==
    {match_whitespace(str), match_line_comment(str), match_block_comment(str).length,
     match_hashbang_comment(str, TRUE), match_string_literal(str).length,
     match_digits(str, 10).length, match_digits(str, 16).length, match_numeric_literal(str).length,
     match_identifier(str), match_jsx_element_name(str), match_jsx_attribute_name(str),
     match_private_identifier(str), match_jsx_braced(str).length, match_jsx_tag(str).length}

\* C15: for the span at the cursor, every matcher reports a consumed length
\* that is at most the length of the span (a result of length 0 reports no
\* match).
C15_MatchersWithinSpan ==
    index <= Len(source) => \A length \in C15_Lengths(remainder(Cur)) : length \in 0..Len(remainder(Cur))

\* A dispatch loop is at a cursor where the chain of productions arrives at
\* match_name and the decoder fails in it.
C16_DecoderFailsAtCursor ==
    /\ (In("top") /\ index < Len(source)) \/ (In("js") /\ ~js_returns(Cur))
    /\ match_name_throws(remainder(Cur), "identifier")
    /\ match_numeric_literal(remainder(Cur)).length = 0

\* The failure ends the scan where it is: nothing is emitted or consumed.
C16_Propagates ==
    C16_DecoderFailsAtCursor => (status' = "exception" /\ out' = out /\ index' = index)

\* No error record covers a malformed code unit.
C16_NoLocalRecovery ==
    \A i \in 1..Len(out[FALSE]) :
        out[FALSE][i].type = "error" =>
            \A p \in out[FALSE][i].begin..(out[FALSE][i].begin + out[FALSE][i].length - 1) :
                p < Len(source) => source[p + 1] # Malformed

\* C16: when the decoder fails while a name is matched the scan ends with
\* the exception: the call does not return true, and the malformed code
\* unit is not emitted as an error record.
C16_DecoderFailureIsHard ==
    /\ [](C16_NoLocalRecovery /\ (source \in MalformedNames => status # "done"))
    /\ [][C16_Propagates]_vars

\* The decoder has failed in the middle of a name.
C16_ExceptionWitness ==
    source = <<"a", Malformed>> /\ status = "exception" /\ index = 0 /\ out[FALSE] = <<>>

\* The words after which an expression follows.
C17_ExpressionKeywords ==
    {<<"r", "e", "t", "u", "r", "n">>, <<"t", "h", "r", "o", "w">>, <<"c", "a", "s", "e">>,
     <<"d", "e", "l", "e", "t", "e">>, <<"v", "o", "i", "d">>, <<"t", "y", "p", "e", "o", "f">>,
     <<"y", "i", "e", "l", "d">>, <<"a", "w", "a", "i", "t">>,
     <<"i", "n", "s", "t", "a", "n", "c", "e", "o", "f">>, <<"i", "n">>, <<"n", "e", "w">>}

\* The operators after which no regex literal may begin.
C17_NonRegexOperators == {<<"+", "+">>, <<"-", "-">>, <<")">>, <<"]">>, <<"}">>, <<"+">>, <<"-">>}

\* The value the rule table gives can_be_regex after the token of record r.
C17_Rule(r) ==
    CASE r.type \in {"comment", "comment_delimiter"} -> TRUE
      [] r.type \in {"string", "string_delim", "number", "id"} -> FALSE
      [] r.type = "keyword" -> SubSeq(source, r.begin + 1, r.begin + r.length) \in C17_ExpressionKeywords
      [] OTHER -> SubSeq(source, r.begin + 1, r.begin + r.length) \notin C17_NonRegexOperators

\* C17: at the head of the top-level loop and of the braced-JS loop,
\* can_be_regex is true before any token, and after a token (a comment, a
\* literal, an identifier or keyword, an operator or punctuation mark) that
\* ends at the cursor it has the value the rule table gives for that token.
C17_RegexFlagFollowsTable ==
    (In("top") \/ In("js")) =>
        IF out[FALSE] = <<>> THEN can_be_regex
        ELSE LET r == out[FALSE][Len(out[FALSE])]
             IN (/\ r.begin + r.length = index
                 /\ r.type \in {"comment", "comment_delimiter", "string", "string_delim", "number", "id",
                                "keyword", "sym_op", "sym_punc", "sym_parens", "sym_square", "sym_brace"})
                    => can_be_regex = C17_Rule(r)

\* A dispatch loop is at a "<" at which the trial parse of a JSX tag
\* returns false.
C18_TrialParseFails ==
    /\ (In("top") /\ index < Len(source)) \/ (In("js") /\ ~js_returns(Cur))
    /\ source[index + 1] = "<"
    /\ ~match_jsx_tag_events(remainder(Cur), "non_closing").matched
    /\ ~match_jsx_tag_events(remainder(Cur), "non_closing").undefined
    /\ match_jsx_tag_events(remainder(Cur), "non_closing").type # "thrown"

\* The length of the operator that begins with the "<" at the start of rem.
C18_OperatorLength(rem) ==
    IF starts_with(rem, <<"<", "<", "=">>) THEN 3
    ELSE IF starts_with(rem, <<"<", "<">>) \/ starts_with(rem, <<"<", "=">>) THEN 2
    ELSE 1

\* The step taken there emits the operator and nothing else.
C18_OperatorEmitted ==
    C18_TrialParseFails =>
        /\ status' = "running"
        /\ out'[FALSE] = Append(out[FALSE], Record(index, C18_OperatorLength(remainder(Cur)), "sym_op"))
        /\ index' = index + C18_OperatorLength(remainder(Cur))
        /\ can_be_regex'
        /\ Len(stack') = Len(stack)

\* C18: when the trial parse of a JSX tag fails at a "<", the attempt emits
\* nothing and moves nothing: the iteration emits exactly the operator "<",
\* "<=", "<<" or "<<=" at the cursor and advances past it.
C18_FailedTrialHasNoEffect == [][C18_OperatorEmitted]_vars

\* The "<=" of a<=b has been emitted as one operator after the trial parse
\* failed at it.
C18_OperatorWitness ==
    /\ source = <<"a", "<", "=", "b">> /\ In("top") /\ index = 3
    /\ out[FALSE] = <<Record(0, 1, "id"), Record(1, 2, "sym_op")>>

\* The token that ends at the cursor is an identifier, a literal or a
\* closing bracket: no expression is expected after it.
C19_NoExpressionExpected ==
    /\ out[FALSE] # <<>>
    /\ LET r == out[FALSE][Len(out[FALSE])]
       IN \/ r.type \in {"id", "number", "string_delim"}
          \/ r.type \in {"sym_parens", "sym_square"} /\ source[r.begin + 1] \in {")", "]"}

\* The iteration at such a "<" emits it as an operator and enters no scan.
C19_NoJsxAfterOperand ==
    (/\ (In("top") /\ index < Len(source)) \/ (In("js") /\ ~js_returns(Cur))
     /\ source[index + 1] = "<"
     /\ C19_NoExpressionExpected)
        => /\ Len(stack') = Len(stack)
           /\ out'[FALSE] = Append(out[FALSE], Record(index, C18_OperatorLength(remainder(Cur)), "sym_op"))

\* C19: at a "<" where no expression is expected (directly after an
\* identifier, a literal or a closing bracket, as in a<b>c) the dispatch loop
\* starts no JSX scan: the iteration emits the "<" as an operator and enters
\* no tag or children scan.
C19_JsxOnlyWhereExpressionExpected == [][C19_NoJsxAfterOperand]_vars

\* The offset in source of the next of & { } < > in the text the children
\* scan has before it, -1 when there is none.
C20_Special ==
    IF find_first_of(substr(source, top(Cur).rem), 0) = -1 THEN -1
    ELSE top(Cur).rem + find_first_of(substr(source, top(Cur).rem), 0)

\* The children scan is before a stray "<", ">", "{" or "}": a "<" at which
\* no tag matches, a "{" with no closing brace before the end of the input,
\* any ">" and any "}".
C20_Stray(brackets) ==
    /\ In("children") /\ top(Cur).rem < Len(source)
    /\ C20_Special # -1
    /\ source[C20_Special + 1] \in brackets
    /\ source[C20_Special + 1] = "<" =>
           /\ match_jsx_tag_events(substr(source, C20_Special), "all").type # "thrown"
           /\ ~match_jsx_tag_events(substr(source, C20_Special), "all").undefined
           /\ ~match_jsx_tag_events(substr(source, C20_Special), "all").matched
    /\ source[C20_Special + 1] = "{" => ~match_jsx_braced(substr(source, C20_Special)).is_terminated

\* The iteration emits the stray byte as one error record and the children
\* scan goes on behind it.
C20_ErrorEmitted(brackets) ==
    C20_Stray(brackets) =>
        /\ status' = "running"
        /\ out'[FALSE] = Append(out[FALSE], Record(C20_Special, 1, "error"))
        /\ index' = C20_Special + 1
        /\ Len(stack') = Len(stack)
        /\ stack'[Len(stack')].pc = "children"
        /\ stack'[Len(stack')].rem = C20_Special + 1

\* C20: in the JSX children scan each stray "<" (no tag matches there), ">",
\* "{" (no closing brace before the end of the input) and "}" in the text is
\* emitted as a single-byte error record, and the children scan continues
\* after it.
C20_StrayBracketsAreErrors == [][C20_ErrorEmitted({"<", ">", "{", "}"})]_vars

\* The children scan is entered with depth 0.
C21_StartsAtZero ==
    (In("jsx_tag_done") /\ status' = "running" /\ Len(stack') = Len(stack) + 1) =>
        /\ stack'[Len(stack')].pc = "children"
        /\ stack'[Len(stack')].n = 0

\* What the tag of type type does to the depth.
C21_DepthAfter(depth, type) ==
    CASE type \in {"opening", "fragment_opening"} -> depth + 1
      [] type \in {"closing", "fragment_closing"} -> depth - 1
      [] OTHER -> depth

\* After a tag of the children: a closing tag that would make the depth
\* negative ends the scan with the cursor right behind that tag, every other
\* tag changes the depth by its type and the scan goes on.
C21_TagChangesDepth ==
    In("children_tag_done") =>
        IF C21_DepthAfter(top(Cur).n, top(Cur).type) < 0
        THEN /\ status' = "running"
             /\ Len(stack') = Len(stack) - 1
             /\ stack'[Len(stack')].pc = "jsx_children_done"
             /\ index' = index /\ out' = out
             /\ index = top(Cur).rem + top(Cur).length
        ELSE /\ status' = "running"
             /\ Len(stack') = Len(stack)
             /\ stack'[Len(stack')].pc = "children"
             /\ stack'[Len(stack')].n = C21_DepthAfter(top(Cur).n, top(Cur).type)

\* Text, references, stray bytes and braced expressions leave the depth as
\* it is.
C21_OtherChildrenKeepDepth ==
    ((In("children") \/ In("children_braced_done")) /\ status' = "running" /\ Len(stack') >= Len(stack)) =>
        stack'[Len(stack)].n = top(Cur).n

\* After the children scan has returned, the enclosing loop goes on at the
\* cursor the scan has left.
C21_Resumes ==
    In("jsx_children_done") =>
        /\ index' = index /\ out' = out
        /\ Len(stack') = Len(stack) - 1
        /\ stack'[Len(stack')].pc \in {"top", "js"}

\* C21: the JSX children scan keeps a depth that starts at 0, is incremented
\* by each opening or fragment-opening tag, decremented by each closing or
\* fragment-closing tag and left unchanged by self-closing tags; the scan
\* returns immediately after the first closing tag that would make the depth
\* negative, so JS tokenization resumes right after the tag that closes the
\* element the scan was started for.
C21_ChildrenDepth ==
    /\ [][C21_StartsAtZero]_vars
    /\ [][C21_TagChangesDepth]_vars
    /\ [][C21_OtherChildrenKeepDepth]_vars
    /\ [][C21_Resumes]_vars

\* str begins with "<" followed, after optional whitespace and comments, by
\* "/".
C22_ClosingTagAhead(str) ==
    /\ starts_with(str, <<"<">>)
    /\ starts_with(substr(str, 1 + events_length(wsc_events(substr(str, 1)))), <<"/">>)

\* In non_closing mode no text is matched as a closing or fragment-closing
\* tag, and a text that begins like one is not matched at all.
C22_NonClosingNeverCloses ==
    \A i \in 0..Len(source) :
        /\ match_jsx_tag_impl(substr(source, i), "non_closing").type \notin {"closing", "fragment_closing"}
        /\ C22_ClosingTagAhead(substr(source, i)) =>
               match_jsx_tag_impl(substr(source, i), "non_closing").length = 0

\* A dispatch loop at such a position emits the "<" as an operator and does
\* not enter a JSX element.
C22_LessThanEmitted ==
    (/\ (In("top") /\ index < Len(source)) \/ (In("js") /\ ~js_returns(Cur))
     /\ C22_ClosingTagAhead(remainder(Cur))) =>
        /\ status' = "running"
        /\ out'[FALSE] = Append(out[FALSE], Record(index, 1, "sym_op"))
        /\ index' = index + 1
        /\ Len(stack') = Len(stack)

\* C22: in non_closing mode the tag matcher never recognizes a closing or
\* fragment-closing tag: at a dispatch position that begins with "<"
\* followed, after optional whitespace and comments, by "/", no JSX element
\* is entered and the "<" is emitted as an operator.
C22_NoClosingTagAtDispatch == []C22_NonClosingNeverCloses /\ [][C22_LessThanEmitted]_vars

\* The "<" of < /a> has been emitted as an operator.
C22_LessThanWitness ==
    /\ source = <<"<", " ", "/", "a", ">">> /\ In("top") /\ index = 1
    /\ out[FALSE] = <<Record(0, 1, "sym_op")>>

RECURSIVE C23_Balance(_, _, _)

\* The offset just past the "}" that balances the "{" at the start of str,
\* scanning on from pos at the given depth; whitespace, comments and string
\* literals are passed over whole.  -1 when str ends first.
C23_Balance(str, pos, level) ==
    IF pos >= Len(str) THEN -1
    ELSE IF match_whitespace_comment_sequence(substr(str, pos)) # 0
    THEN C23_Balance(str, pos + match_whitespace_comment_sequence(substr(str, pos)), level)
    ELSE IF str[pos + 1] \in {"'", "\""} /\ match_string_literal(substr(str, pos)).length # 0
    THEN C23_Balance(str, pos + match_string_literal(substr(str, pos)).length, level)
    ELSE IF str[pos + 1] = "}" /\ level = 1 THEN pos + 1
    ELSE C23_Balance(str, pos + 1,
                     CASE str[pos + 1] = "{" -> level + 1
                       [] str[pos + 1] = "}" -> level - 1
                       [] OTHER -> level)

\* What the claim says match_jsx_braced returns for str.
C23_Expected(str) ==
    IF ~starts_with(str, <<"{">>) THEN [length |-> 0, is_terminated |-> FALSE]
    ELSE IF C23_Balance(str, 1, 1) # -1 THEN [length |-> C23_Balance(str, 1, 1), is_terminated |-> TRUE]
    ELSE [length |-> Len(str), is_terminated |-> FALSE]

\* C23: for a text that starts with "{", match_jsx_braced returns
\* is_terminated = true and the offset just past the "}" that balances the
\* opening "{", braces in string literals and comments not counted; without
\* a balancing "}" it returns is_terminated = false and the length of the
\* text; for a text that does not start with "{" it returns no match.
C23_BracedMatch ==
    \A i \in 0..Len(source) : match_jsx_braced(substr(source, i)) = C23_Expected(substr(source, i))

\* A dispatch loop is at a "." that no ASCII digit follows.
C24_DotWithoutDigit ==
    /\ (In("top") /\ index < Len(source)) \/ (In("js") /\ ~js_returns(Cur))
    /\ source[index + 1] = "."
    /\ IF index + 1 >= Len(source) THEN TRUE ELSE ~is_ascii_digit(source[index + 2])

\* The numeric-literal matcher returns no match there, and the iteration
\* emits "..." as the ellipsis or "." as the member-access operator.
C24_DotEmitted ==
    C24_DotWithoutDigit =>
        /\ match_numeric_literal(remainder(Cur)).length = 0
        /\ status' = "running"
        /\ out'[FALSE] = Append(out[FALSE],
                                IF starts_with(remainder(Cur), <<".", ".", ".">>)
                                THEN Record(index, 3, js_token_type_highlight("ellipsis"))
                                ELSE Record(index, 1, js_token_type_highlight("dot")))
        /\ index' = index + (IF starts_with(remainder(Cur), <<".", ".", ".">>) THEN 3 ELSE 1)

\* C24: when the text at the cursor starts with "." without a leading digit,
\* match_numeric_literal matches only if the character right after the "."
\* is an ASCII digit; otherwise, also when the "." is the last byte of the
\* input, it returns no match and the "." is emitted as the member-access
\* operator (or "..." as the ellipsis).
C24_LeadingDot == [][C24_DotEmitted]_vars

\* The spellings of the operators and punctuation marks.
C25_Spellings == {token_types[i].code : i \in {j \in 1..Len(token_types) : token_types[j].highlight # "keyword"}}

\* The result for str is the longest spelling that str begins with, and no
\* match exactly when no spelling begins with the first byte of str.
C25_Longest(str) ==
    IF match_operator_or_punctuation(str) = "none"
    THEN \A c \in C25_Spellings : ~starts_with(str, <<c[1]>>)
    ELSE /\ starts_with(str, js_token_type_code(match_operator_or_punctuation(str)))
         /\ \A c \in C25_Spellings :
                starts_with(str, c) => Len(c) <= Len(js_token_type_code(match_operator_or_punctuation(str)))

\* A dispatch loop is at a cursor where the productions tried before the
\* operators return no match and an operator or punctuation mark matches.
C25_OperatorAtCursor ==
    /\ (In("top") /\ index < Len(source)) \/ (In("js") /\ ~js_returns(Cur) /\ source[index + 1] \notin {"{", "}"})
    /\ match_whitespace(remainder(Cur)) = 0
    /\ match_line_comment(remainder(Cur)) = 0
    /\ match_block_comment(remainder(Cur)).length = 0
    /\ ~match_jsx_tag_impl(remainder(Cur), "non_closing").thrown
    /\ match_jsx_tag_impl(remainder(Cur), "non_closing").length = 0
    /\ regex_length(remainder(Cur), can_be_regex) = 0
    /\ match_numeric_literal(remainder(Cur)).length = 0
    /\ match_operator_or_punctuation(remainder(Cur)) # "none"

\* The iteration emits the matched spelling and advances by its length.
C25_AdvancesBySpelling ==
    C25_OperatorAtCursor =>
        /\ status' = "running"
        /\ index' = index + Len(js_token_type_code(match_operator_or_punctuation(remainder(Cur))))
        /\ out'[FALSE] = Append(out[FALSE],
                                Record(index, Len(js_token_type_code(match_operator_or_punctuation(remainder(Cur)))),
                                       js_token_type_highlight(match_operator_or_punctuation(remainder(Cur)))))

\* C25: match_operator_or_punctuation is a longest match: the spelling of
\* the returned type is a prefix of the text and no longer operator or
\* punctuation spelling is; it returns no match exactly when the first byte
\* begins no operator or punctuation mark; and the Highlighter advances by
\* the length of the matched spelling.
C25_LongestMatch ==
    /\ [](\A i \in 0..Len(source) : C25_Longest(substr(source, i)))
    /\ [][C25_AdvancesBySpelling]_vars

\* The scan of >>>= has emitted it as one operator.
C25_LongestWitness ==
    /\ source = <<">", ">", ">", "=">> /\ status = "done"
    /\ out[FALSE] = <<Record(0, 4, "sym_op")>>

\* The spelling table is sorted, as the static_assert requires.
C26_Sorted ==
    \A i \in 1..(Len(token_type_codes) - 1) : view_less(token_type_codes[i], token_type_codes[i + 1])

\* Looking up the spelling of a token type yields that type, and the length
\* kept for the type is the length of its spelling.
C26_RoundTrip ==
    \A i \in 1..Len(token_types) :
        /\ js_token_type_by_code(js_token_type_code(token_types[i].id)) = token_types[i].id
        /\ js_token_type_length(token_types[i].id) = Len(js_token_type_code(token_types[i].id))

\* The lookup of s finds the type whose spelling is s, and nothing when s is
\* not a spelling of the table.
C26_ExactFor(s) ==
    IF \E i \in 1..Len(token_types) : token_types[i].code = s
    THEN js_token_type_code(js_token_type_by_code(s)) = s
    ELSE js_token_type_by_code(s) = "none"

\* Every code unit of s is one the order of the table is modelled for.
C26_Ordered(s) == \A k \in 1..Len(s) : \E c \in 1..Len(AsciiOrder) : AsciiOrder[c] = s[k]

\* C26: the registry lookup is exact and round-trips over a sorted spelling
\* table: js_token_type_by_code(js_token_type_code(t)) = t for every token
\* type t, js_token_type_by_code(s) is empty for every s that is not in the
\* table, prefixes and extensions of entries included, and
\* js_token_type_length(t) is the length of js_token_type_code(t).  The
\* texts s are the prefixes of the text at the cursor of the top-level loop.
C26_RegistryLookup ==
    /\ C26_Sorted
    /\ C26_RoundTrip
    /\ []((In("top") /\ ~debug /\ index <= Len(source)) =>
             \A n \in 0..Len(remainder(Cur)) :
                 C26_Ordered(prefix(remainder(Cur), n)) => C26_ExactFor(prefix(remainder(Cur), n)))

\* The lookup has found the keyword return in the text at the cursor.
C26_KeywordWitness ==
    /\ source = RegexExample /\ In("top") /\ index = 6
    /\ out[FALSE] = <<Record(0, 6, "keyword")>>

\* consume_jsx_tag, called by expect_jsx_in_js for the tag that the trial
\* parse has matched at the cursor of the dispatch loop, returns.
C27_RealParseReturns ==
    /\ In("tag") /\ Len(stack) >= 3
    /\ stack[Len(stack) - 1].pc = "jsx_tag_done"
    /\ status' = "running" /\ Len(stack') = Len(stack) - 1

\* The cursor is then behind the tag as the trial parse has measured it.
C27_SameLength ==
    C27_RealParseReturns =>
        index' = stack[Len(stack) - 2].start + stack[Len(stack) - 1].length

\* C27: the trial parse and the real parse of a JSX tag agree: when the
\* counting trial parse of the tag at the cursor succeeds with length L, the
\* highlighting parse of that tag in consume_jsx_tag advances the cursor by
\* exactly L, also for tags whose braced attribute values contain template
\* literals, regex literals or nested JSX.
C27_TrialAndRealParseAgree == [][C27_SameLength]_vars

\* At the start of an iteration of the children loop the local view rem
\* begins at the cursor.
C28_AtLoopHead == In("children") => top(Cur).rem = index

\* When the scan returns behind a closing tag, rem, moved on by the length of
\* the tag, begins at the cursor.
C28_AtReturn ==
    (In("children_tag_done") /\ status' = "running" /\ Len(stack') = Len(stack) - 1) =>
        top(Cur).rem + top(Cur).length = index

\* C28: in consume_jsx_children_and_closing_tag the local view rem stays in
\* step with the cursor: at the start of every loop iteration and when the
\* function returns, rem is the source from index to its end, whatever the
\* braced child expressions and nested tags contain.
C28_RemInStepWithCursor == []C28_AtLoopHead /\ [][C28_AtReturn]_vars

\* C29: no matcher reads a position at or beyond the end of the span it
\* was given: every indexed read str[i] in match_jsx_braced (after the
\* whitespace and comments are skipped) and in match_numeric_literal (the
\* character after a leading ".") has i < length(str).  The spans are the
\* text at the cursor of a dispatch loop, which the numeric matcher is given,
\* and the text at a "{" of the JSX children, which match_jsx_braced is
\* given.
C29_ReadsWithinSpan ==
    /\ ((In("top") \/ In("js")) /\ index <= Len(source)) =>
           \A i \in numeric_literal_reads(remainder(Cur)) : i < Len(remainder(Cur))
    /\ (In("children") /\ top(Cur).rem < Len(source) /\ C20_Special # -1) =>
           \A i \in jsx_braced_reads(substr(source, C20_Special)) : i < Len(source) - C20_Special

\* str begins neither with an ASCII digit nor with "." and an ASCII digit.
C30_NoNumberAhead(str) ==
    /\ Len(str) # 0
    /\ ~is_ascii_digit(str[1])
    /\ ~(Len(str) >= 2 /\ str[1] = "." /\ is_ascii_digit(str[2]))

\* A dispatch loop is at an identifier that begins with "_".
C30_UnderscoreAtCursor ==
    /\ (In("top") /\ index < Len(source)) \/ (In("js") /\ ~js_returns(Cur))
    /\ source[index + 1] = "_"

\* The numeric-literal matcher returns no match for it and the iteration
\* emits the whole identifier as one record.
C30_IdentifierEmitted ==
    C30_UnderscoreAtCursor =>
        /\ C30_NoNumberAhead(remainder(Cur))
        /\ match_numeric_literal(remainder(Cur)).length = 0
        /\ status' = "running"
        /\ out'[FALSE] = Append(out[FALSE], Record(index, match_identifier(remainder(Cur)), "id"))
        /\ index' = index + match_identifier(remainder(Cur))

\* C30: an identifier that begins with "_" is emitted as one identifier
\* record: the numeric-literal matcher, tried before the identifier matcher,
\* returns no match for a text that begins neither with an ASCII digit nor
\* with "." followed by an ASCII digit.
C30_UnderscoreIdentifier == [][C30_IdentifierEmitted]_vars

\* The template loop is at a backtick or a "${" that an unescaped backslash
\* of the template precedes.
C31_EscapedAtCursor ==
    /\ In("template") /\ index >= 1 /\ index < Len(source)
    /\ source[index] = "\\"
    /\ IF index >= 2 THEN source[index - 1] # "\\" ELSE TRUE
    /\ source[index + 1] = Backtick \/ starts_with(remainder(Cur), <<"$", "{">>)

\* The escaped character is taken as a character of the string: the template
\* goes on behind it, and nothing is emitted for it yet.
C31_EscapedIsContent ==
    C31_EscapedAtCursor =>
        /\ status' = "running"
        /\ Len(stack') = Len(stack)
        /\ stack'[Len(stack')].pc = "template"
        /\ index' = index + 1
        /\ out' = out

\* C31: inside a template literal a backslash escapes the next character: a
\* backslash-escaped backtick does not end the template and a
\* backslash-escaped "${" does not start a substitution; the template ends
\* only at the first unescaped backtick outside any substitution.
C31_TemplateEscapes == [][C31_EscapedIsContent]_vars

\* The template loop is at the backtick that ends the template.
C32_TemplateCloses == In("template") /\ index < Len(source) /\ source[index + 1] = Backtick

\* The flag is false once the template is consumed.
C32_FlagCleared == C32_TemplateCloses => (status' = "running" /\ ~can_be_regex')

\* A dispatch loop is at a "/" that directly follows the closing backtick of
\* a template and begins no comment.
C32_SlashAfterTemplate ==
    /\ (In("top") /\ index < Len(source)) \/ (In("js") /\ ~js_returns(Cur))
    /\ index >= 1 /\ source[index] = Backtick
    /\ out[FALSE] # <<>> /\ out[FALSE][Len(out[FALSE])] = Record(index - 1, 1, "string_delim")
    /\ source[index + 1] = "/"
    /\ match_line_comment(remainder(Cur)) = 0 /\ match_block_comment(remainder(Cur)).length = 0

\* The "/" is emitted as the division operator ("/=" as the assignment).
C32_DivisionEmitted ==
    C32_SlashAfterTemplate =>
        /\ status' = "running"
        /\ out'[FALSE] = Append(out[FALSE],
                                Record(index, IF starts_with(remainder(Cur), <<"/", "=">>) THEN 2 ELSE 1, "sym_op"))

\* C32: after a template literal has been consumed can_be_regex is false, so
\* a "/" that directly follows a template literal is emitted as the division
\* operator and not as the start of a regex literal, whatever the flag was
\* before the template and whatever tokens its substitutions contained.
C32_DivisionAfterTemplate == [][C32_FlagCleared]_vars /\ [][C32_DivisionEmitted]_vars

\* s is well-formed: every code unit is a unit of one whole code point.
C33_ValidUtf8(s) ==
    \A k \in 1..Len(s) :
        /\ s[k] # Malformed
        /\ s[k] = Lead => (k < Len(s) /\ s[k + 1] = Cont)
        /\ s[k] = Cont => (k > 1 /\ s[k - 1] = Lead)

\* C33: for a source that is valid UTF-8 the cursor lies on a code-point
\* boundary at the start of every dispatch iteration, so the decoder is
\* never invoked in the middle of a code point and never fails, also after
\* the one-byte error fallback on a multi-unit character that starts no
\* token and after regex flags are consumed byte by byte.
C33_CursorOnBoundary ==
    C33_ValidUtf8(source) =>
        /\ ((In("top") \/ In("js")) /\ index < Len(source)) =>
               (source[index + 1] # Cont /\ ~decode_throws(remainder(Cur)))
        /\ status # "exception"

\* The records a step emits without coalescing are appended to those
\* emitted before, and each begins at or after the end of the record
\* emitted before it.
C34_AppendedInOrder ==
    /\ Len(out'[FALSE]) >= Len(out[FALSE])
    /\ SubSeq(out'[FALSE], 1, Len(out[FALSE])) = out[FALSE]
    /\ \A i \in (Len(out[FALSE]) + 1)..Len(out'[FALSE]) :
           IF i > 1
           THEN out'[FALSE][i - 1].begin + out'[FALSE][i - 1].length <= out'[FALSE][i].begin
           ELSE TRUE

\* C34: records are emitted in ascending position order and never overlap:
\* for every two consecutively emitted records r1 then r2, without
\* coalescing, r1.begin + r1.length <= r2.begin, including the records of
\* template string runs, block comments and JSX tags.
C34_EmissionOrder == [][C34_AppendedInOrder]_vars

\* A finished scan that emitted the runs of a template, a block comment and
\* a JSX tag.
C34_RunsCommentTagWitness ==
    /\ status = "done"
    /\ source = TemplateCommentTag
    /\ \E i, j, k \in 1..Len(out[FALSE]) :
           /\ i < j /\ j < k
           /\ out[FALSE][i].type = "string" /\ out[FALSE][i].begin = 6
           /\ out[FALSE][j].type = "comment" /\ out[FALSE][j].begin = 10
           /\ out[FALSE][k].begin = 13

\* The records of buffer that cover the source position p.
C35_Covering(buffer, p) ==
    {i \in 1..Len(buffer) : buffer[i].begin <= p /\ p < buffer[i].begin + buffer[i].length}

\* The code unit at position p may pass the cursor without a record in a
\* step of the call at pc: whitespace between tokens and inside a JSX tag,
\* JSX text among the children of an element.
C35_MaySkip(pc, p) ==
    CASE pc \in {"top", "js", "tag"} -> is_js_whitespace(source[p + 1])
      [] pc = "children" -> source[p + 1] \notin {"{", "}", "<", ">"}
      [] OTHER -> FALSE

\* The code units of the template at the top of the stack after the step
\* that are counted in chars and await their record.
C35_Pending(p) ==
    /\ status' = "running"
    /\ Len(stack') >= Len(stack)
    /\ stack'[Len(stack)].pc = "template"
    /\ p >= index' - stack'[Len(stack)].n

\* Every source position the cursor passes in a step is covered by a
\* record, or awaits the record of its template run, or is whitespace or
\* JSX text.
C35_PassedAreCovered ==
    \A p \in 0..(Len(source) - 1) :
        (index - (IF stack[Len(stack)].pc = "template" THEN stack[Len(stack)].n ELSE 0) <= p /\ p < index')
            => \/ C35_Covering(out'[FALSE], p) # {}
               \/ C35_Pending(p)
               \/ C35_MaySkip(stack[Len(stack)].pc, p)

\* When the scan has finished the cursor has passed every source position,
\* and no position is covered by two records.
C35_AllPassedOnce ==
    status = "done" =>
        /\ index >= Len(source)
        /\ \A p \in 0..(Len(source) - 1) : Cardinality(C35_Covering(out[FALSE], p)) <= 1

\* C35: when a scan finishes, every source position covered by no record is
\* a whitespace character skipped between tokens or inside a JSX tag, or a
\* byte of JSX text content; every other byte of the source is covered by
\* exactly one record.
C35_OnlyWhitespaceAndTextUncovered == []C35_AllPassedOnce /\ [][C35_PassedAreCovered]_vars

=============================================================================
